---- MODULE Spec2Model ----
(***************************************************************************)
(* PyTissueOptics: Monte Carlo photon propagation.                         *)
(*                                                                         *)
(* The model follows one axis of the simulation, z, the axis along which   *)
(* Layer geometries are bounded.  A position is the z coordinate of a      *)
(* Vector, a direction is the z component of a unit vector: +1 and -1 are  *)
(* the two normal directions, 0 is a direction parallel to the surfaces.   *)
(* Lengths are integers whose unit is the 1e-3 step that moves a photon    *)
(* away from a surface.  Weights are integers, WeightOne standing for the  *)
(* weight 1.0, so that the roulette threshold 1e-4 is a whole number.      *)
(*                                                                         *)
(* Objects that Python shares by reference are shared here through the     *)
(* heap: a Source's cache holds photon ids, and every operation on a       *)
(* photon updates the heap entry of its id.                                *)
(***************************************************************************)
EXTENDS Integers, Sequences, FiniteSets, TLC

VARIABLES
    geometries,     \* World.geometries: the placed Geometry objects, in order
    sources,        \* World.sources: the placed Source objects, in order
    heap,           \* every Photon object created so far, by id
    photonInit,     \* the value Photon.__init__ gives currentGeometry
    notSupposed,    \* World.countNotSupposedToBeThere
    pc,             \* position of the running driver
    err,            \* the exception that ended the last call, or "none"
    runs,           \* number of compute calls started
    srcIdx,         \* oldCompute: index of the source being iterated
    cur,            \* the photon being processed (a heap id, 0 for none)
    currentGeometry,\* oldCompute's local variable currentGeometry
    pending,        \* compute: the photons still to be propagated
    geo,            \* Geometry.propagate: self, an index into geometries
    d,              \* Geometry.propagate: the local variable d
    inter,          \* Geometry.propagate: the local variable intersection
    hist,           \* history of the current Geometry.propagate call
    life,           \* history of the current photon's processing in the World
    loop,           \* history of the current for-loop over a Source
    started,        \* history of the last _startCalculation
    rec,            \* recorded draws and trajectories of the compute calls
    call,           \* a call of a method: its arguments, locals and result
    scene           \* the objects of pytissueoptics.scene: SurfaceCollections,
                    \* or a Loader with its parser and the solids it made

vars == <<geometries, sources, heap, photonInit, notSupposed, pc, err, runs,
          srcIdx, cur, currentGeometry, pending, geo, d, inter, hist, life,
          loop, started, rec, call, scene>>

----------------------------------------------------------------------------
(* Bounds of the model. *)

\* Geometries placed in a World, photons of all the sources placed in it, compute
\* calls on it.
MaxGeometries == 2
MaxPhotons == 2
MaxRuns == 2
\* The longest free-flight distance drawn.
MaxDistance == 3
\* The largest maxCount of a Source used on its own.
MaxCount == 2

(* Program constants. *)

\* Photon weight 1.0 in weight units; 1e-4 is RouletteThreshold in the same units.
WeightOne == 100000
RouletteThreshold == 10
\* photon.moveBy(d=1e-3): the unit of length.
Nudge == 1
\* maxDist of validateGeometrySurfaceNormals and the distance of World._nextObstacle,
\* both far beyond every placed geometry.
ValidateMaxDist == 1000000
WorldMaxDist == 10000000

----------------------------------------------------------------------------
(* References to the object a photon is in. *)

NoneRef == [kind |-> "none", idx |-> 0]

\* No object of pytissueoptics.scene has been made.
NoScene == [kind |-> "none"]
WorldRef == [kind |-> "world", idx |-> 0]
GeometryRef(i) == [kind |-> "geometry", idx |-> i]

----------------------------------------------------------------------------
(* Photon *)

\* Photon(position, direction): weight 1.0, local origin (0, 0, 0).
NewPhoton(position, direction) ==
    [r |-> position, ez |-> direction, weight |-> WeightOne, origin |-> 0,
     currentGeometry |-> photonInit]

isAlive(p) == p.weight > 0

globalPosition(p) == p.r + p.origin

transformToLocalCoordinates(p, origin) ==
    [p EXCEPT !.r = p.r - origin, !.origin = origin]

transformFromLocalCoordinates(p, origin) ==
    [p EXCEPT !.r = p.r + origin, !.origin = 0]

moveBy(p, dist) == [p EXCEPT !.r = p.r + p.ez * dist]

decreaseWeightBy(p, delta) ==
    [p EXCEPT !.weight = IF p.weight - delta < 0 THEN 0 ELSE p.weight - delta]

\* The z component after scattering: theta = 0 keeps the direction, theta = pi
\* reverses it, theta = pi/2 turns a normal direction parallel to the surfaces
\* (and, with phi along the normal, a parallel one normal).
scatterBy(p, newEz) == [p EXCEPT !.ez = newEz]

\* Mirror about the surface normal, which is along z.
reflect(p) == [p EXCEPT !.ez = -p.ez]

\* At normal incidence the refracted direction is the incident one.
refract(p) == p

\* Russian roulette: below the threshold the photon survives with chance 0.1 and
\* its weight is divided by 0.1, or it is killed.
roulette(p, survives) ==
    IF p.weight >= RouletteThreshold \/ p.weight = 0 THEN p
    ELSE IF survives THEN [p EXCEPT !.weight = p.weight * 10]
    ELSE [p EXCEPT !.weight = 0]

----------------------------------------------------------------------------
(* Source *)

\* Source.__init__ (PencilSource: origin, direction, maxCount).
NewSource(direction, maxCount) ==
    [origin |-> 0, direction |-> direction, maxCount |-> maxCount,
     iteration |-> 0, photons |-> <<>>]

\* PencilSource.newPhoton
newPhoton(s) == NewPhoton(s.origin, s.direction)

\* The loop "while len(self._photons) < n: self._photons.append(self.newPhoton())"
\* of __getitem__ (n = item + 1) and of getPhotons (n = maxCount): the source and
\* the heap after it.
RECURSIVE FillPhotons(_, _, _)
FillPhotons(s, h, n) ==
    IF Len(s.photons) >= n THEN [source |-> s, heap |-> h]
    ELSE FillPhotons([s EXCEPT !.photons = Append(s.photons, Len(h) + 1)],
                     Append(h, newPhoton(s)), n)

SourceIterKeepsIteration(s) == s

ItemIndexUnconverted(s, item) == item

\* Source.__iter__
SourceIter(s) == [s EXCEPT !.iteration = 0]

\* Source.__getitem__: the index after the conversion of a negative one.
ItemIndex(s, item) == IF item < 0 THEN item + s.maxCount ELSE item

\* Source.__getitem__ raises IndexError.
ItemRaises(s, item) == ItemIndex(s, item) < 0 \/ ItemIndex(s, item) >= s.maxCount

\* Source.__getitem__ when it does not raise: the source, the heap and the
\* photon returned.
SourceGetItem(s, h, item) ==
    LET filled == FillPhotons(s, h, ItemIndex(s, item) + 1)
    IN [source |-> filled.source, heap |-> filled.heap,
        photon |-> filled.source.photons[ItemIndex(s, item) + 1]]

\* Source.__next__ raises StopIteration.
NextStops(s) == s.iteration >= s.maxCount

\* Source.__next__ when it does not stop.
SourceNext(s, h) ==
    LET got == SourceGetItem(s, h, s.iteration)
    IN [source |-> [got.source EXCEPT !.iteration = s.iteration + 1],
        heap |-> got.heap, photon |-> got.photon]

\* Source.getPhotons
SourceGetPhotons(s, h) == FillPhotons(s, h, s.maxCount)

----------------------------------------------------------------------------
(* Surfaces and intersections *)

\* XYPlane(atZ) and -XYPlane(atZ): a plane at z with its outward normal.
Surface(name, atZ, normal) ==
    [name |-> name, z |-> atZ, normal |-> normal, indexInside |-> 0,
     indexOutside |-> 0]

\* surface.intersection(position, direction, maxDistance): (isIntersecting,
\* distance) of the ray with the plane: none when the ray is parallel to the
\* plane, when the plane is behind the position or beyond maxDistance.
SurfaceIntersection(surface, position, direction, maxDistance) ==
    IF direction = 0 THEN [isIntersecting |-> FALSE, distance |-> 0]
    ELSE LET t == (surface.z - position) * direction
         IN [isIntersecting |-> t > 0 /\ t <= maxDistance, distance |-> t]

NoIntersection ==
    [found |-> FALSE, surface |-> 0, distance |-> 0, geometry |-> NoneRef]

\* FresnelIntersect(direction, surface, distance, geometry)
FresnelIntersect(surfaceIdx, distance, geometry) ==
    [found |-> TRUE, surface |-> surfaceIdx, distance |-> distance,
     geometry |-> geometry]

----------------------------------------------------------------------------
(* Geometry *)

\* Material: the fraction of the weight removed at a volume interaction, in
\* tenths (material.albedo), and the refractive index, in tenths.
Material(absorb, index) == [absorb |-> absorb, index |-> index, clear |-> FALSE]

\* A material with mu_a = mu_s = 0: its albedo is 0 and it has no free-flight
\* distance to sample.
ClearMaterial(index) == [absorb |-> 0, index |-> index, clear |-> TRUE]

\* Layer.__init__
Layer(thickness, material, stats) ==
    [kind |-> "Layer", origin |-> 0, thickness |-> thickness,
     material |-> material, stats |-> stats,
     surfaces |-> <<Surface("Front", 0, -1), Surface("Back", thickness, 1)>>,
     center |-> thickness \div 2]

\* KleinBottle.__init__: a Geometry without surfaces and without a center.
KleinBottle(material) ==
    [kind |-> "KleinBottle", origin |-> 0, thickness |-> 0,
     material |-> material, stats |-> FALSE, surfaces |-> <<>>,
     center |-> 0]

\* KleinBottle.contains raises NotImplementedError.
ContainsRaises(g) == g.kind = "KleinBottle"

\* Layer.contains with the two faces left out.
ContainsStrictly(g, z) == z > 0 /\ z < g.thickness

\* Layer.contains
Contains(g, z) == z >= 0 /\ z <= g.thickness

\* Only the surfaces parallel to the direction do not apply.
Parallel(direction, normal) == direction * normal = 0

\* Geometry.nextEntranceInterface, line 161: parallel or outward, the surface
\* does not apply.
Outward(direction, normal) == direction * normal >= 0

\* Geometry.nextEntranceInterface: the loop over self.surfaces from surface k on,
\* with the closest surface found so far (0 for None) and its distance.
RECURSIVE EntranceScan(_, _, _, _, _, _, _)
EntranceScan(g, position, direction, distance, k, intersectSurface, minDistance) ==
    IF k > Len(g.surfaces) THEN [surface |-> intersectSurface, distance |-> minDistance]
    ELSE IF Outward(direction, g.surfaces[k].normal)
    THEN EntranceScan(g, position, direction, distance, k + 1, intersectSurface,
                      minDistance)
    ELSE LET hit == SurfaceIntersection(g.surfaces[k], position, direction, distance)
         IN IF hit.isIntersecting /\ hit.distance < minDistance
            THEN EntranceScan(g, position, direction, distance, k + 1, k,
                              hit.distance)
            ELSE EntranceScan(g, position, direction, distance, k + 1,
                              intersectSurface, minDistance)

\* Geometry.nextEntranceInterface; self is the reference to g.
nextEntranceInterface(g, self, position, direction, distance) ==
    LET scan == EntranceScan(g, position, direction, distance, 1, 0, distance)
    IN IF scan.surface = 0 THEN NoIntersection
       ELSE FresnelIntersect(scan.surface, scan.distance, self)

DivideByDirectionHalved(x, direction) == (x * direction) \div 2

\* Layer.nextExitInterface divides by direction.z, which is 1 or -1 here.
DivideByDirection(x, direction) == x * direction

\* Layer.nextExitInterface
nextExitInterface(g, self, position, direction, distance) ==
    IF Contains(g, position + direction * distance) THEN NoIntersection
    ELSE IF direction > 0
    THEN LET dd == DivideByDirection(g.thickness - position, direction)
         IN IF dd <= distance THEN FresnelIntersect(2, dd, self) ELSE NoIntersection
    ELSE IF direction < 0
    THEN LET dd == DivideByDirection(-position, direction)
         IN IF dd <= distance THEN FresnelIntersect(1, dd, self) ELSE NoIntersection
    ELSE NoIntersection

----------------------------------------------------------------------------
(* Box and SemiInfiniteLayer, and the nextExitInterface of Geometry *)

\* The tolerance 0.00001 of the bisection, and the unit of length of the model
\* (0.001), both in units of 0.00001 / 128: the halves of every distance of the
\* model are whole numbers down to the tolerance.
Tolerance == 128
LengthUnit == 12800

\* A distance beyond every geometry of the model, and the number of containment
\* tests after which a bisection is given up.
FarDistance == 8
MaxTests == 24

Abs(x) == IF x < 0 THEN -x ELSE x

\* Box.__init__: the extent along z (size[2]) with its Front and Back surfaces.
Box(size, material, stats) ==
    [kind |-> "Box", origin |-> 0, thickness |-> size,
     material |-> material, stats |-> stats,
     surfaces |-> <<Surface("Front", -(size \div 2), -1),
                    Surface("Back", size \div 2, 1)>>,
     center |-> 0]

\* The extents along z of the boxes of the model.
BoxSizes == {2, 4}

\* SemiInfiniteLayer.__init__
SemiInfiniteLayer(material, stats) ==
    [kind |-> "SemiInfiniteLayer", origin |-> 0, thickness |-> 0,
     material |-> material, stats |-> stats,
     surfaces |-> <<Surface("Front", 0, -1)>>,
     center |-> 1]

\* Box.contains, for a position in units of 1 / unit.
BoxContains(g, z, unit) == ~(2 * Abs(z) > g.thickness * unit)

\* SemiInfiniteLayer.contains
SemiInfiniteContains(g, z) == ~(z < 0)

\* self.contains(position) of a Layer, a Box or a SemiInfiniteLayer, for a
\* position in units of 1 / unit.
containsAt(g, z, unit) ==
    IF g.kind = "Box" THEN BoxContains(g, z, unit)
    ELSE IF g.kind = "SemiInfiniteLayer" THEN SemiInfiniteContains(g, z)
    ELSE Contains([g EXCEPT !.thickness = @ * unit], z)

\* SemiInfiniteLayer.nextExitInterface: the exception it raises, and its result.
semiInfiniteExitRaises(g, position, direction, distance) ==
    /\ ~SemiInfiniteContains(g, position + distance * direction)
    /\ ~SemiInfiniteContains(g, position)

semiInfiniteNextExitInterface(g, self, position, direction, distance) ==
    IF SemiInfiniteContains(g, position + distance * direction) THEN NoIntersection
    ELSE IF direction < 0
    THEN LET dd == DivideByDirection(-position, direction)
         IN IF dd <= distance THEN FresnelIntersect(1, dd, self) ELSE NoIntersection
    ELSE NoIntersection

BisectionStopsAtOnce(delta) == FALSE

\* Geometry.nextExitInterface, line 264: the bisection goes on.
BisectionGoesOn(delta) == Abs(delta) > Tolerance

ReversedInFull(delta) == -delta

\* Line 269: delta = -delta * 0.5.
Reversed(delta) == -(delta \div 2)

\* Lines 265-271: one iteration of the bisection on the locals of the call.
BisectionStep(c) ==
    LET finalPosition == c.finalPosition + c.delta * c.direction
        isInside == containsAt(c.g, finalPosition, LengthUnit)
    IN [c EXCEPT !.finalPosition = finalPosition,
                 !.delta = IF isInside # c.wasInside THEN Reversed(@) ELSE @,
                 !.wasInside = isInside,
                 !.tests = @ + 1]

\* surface.contains(finalPosition) for the point the bisection ends at: the
\* plane holds the points within the tolerance of the bisection.
SurfaceContains(surface, finalPosition) ==
    Abs(finalPosition - surface.z * LengthUnit) <= 2 * Tolerance

\* The distance |finalPosition - position| in units of length.
RoundedDistance(finalPosition, position) ==
    (Abs(finalPosition - position * LengthUnit) + LengthUnit \div 2) \div LengthUnit

\* Lines 273-279: the first surface from surface k on whose normal is along the
\* direction and which contains the final position; FresnelIntersect is given
\* no geometry.
RECURSIVE ExitScan(_, _)
ExitScan(c, k) ==
    IF k > Len(c.g.surfaces) THEN NoIntersection
    ELSE IF c.g.surfaces[k].normal * c.direction > 0
            /\ SurfaceContains(c.g.surfaces[k], c.finalPosition)
    THEN FresnelIntersect(k, RoundedDistance(c.finalPosition, c.position), NoneRef)
    ELSE ExitScan(c, k + 1)

\* Lines 259-262: the locals of the bisection when it starts.
BisectionLocals(g, position, direction, distance) ==
    [g |-> g, position |-> position, direction |-> direction,
     finalPosition |-> position * LengthUnit,
     delta |-> (distance * LengthUnit) \div 2, wasInside |-> TRUE, tests |-> 0]

\* Lines 264-271: the bisection loop, to its end.
\* The locals are computed once for each iteration: locals stands for c.
RECURSIVE Bisected(_)
Bisected(c) ==
    CHOOSE end \in {IF BisectionGoesOn(locals.delta) /\ locals.tests < MaxTests
                    THEN Bisected(BisectionStep(locals)) ELSE locals :
                    locals \in {c}} : TRUE

\* Geometry.nextExitInterface, the version a Box inherits.
genericNextExitInterface(g, position, direction, distance) ==
    IF containsAt(g, position + direction * distance, 1) THEN NoIntersection
    ELSE ExitScan(Bisected(BisectionLocals(g, position, direction, distance)), 1)

\* self.nextExitInterface(position, direction, distance) of a Layer or a Box.
exitInterface(g, self, position, direction, distance) ==
    IF g.kind = "Box"
    THEN genericNextExitInterface(g, position, direction, distance)
    ELSE nextExitInterface(g, self, position, direction, distance)

----------------------------------------------------------------------------
(* Random draws and the record of a run *)

\* Free-flight distances material.getScatteringDistance() can return.
Distances == 1 .. MaxDistance

\* The free-flight distance of a material with mu_a = mu_s = 0, beyond every
\* geometry.
VeryFar == 100

\* material.getScatteringDistance(): the distances it can return.
getScatteringDistance(material) == IF material.clear THEN {VeryFar} ELSE Distances

\* The z components material.getScatteringAngles() can lead to.
ScatterDirections == {-1, 1}

\* A draw of the random stream, as a number: a distance, a direction, or 1/0
\* for the two outcomes of a Fresnel decision or of a roulette.
Bit(b) == IF b THEN 1 ELSE 0

\* The length of the recorded stream of draws.
MaxDraws == 4

\* With the record on, a call that replays the stream of the first one takes
\* its draws from the tape as long as the tape lasts.
DrawsAllowed(draws) ==
    rec.on =>
        /\ rec.pos + Len(draws) - 1 <= MaxDraws
        /\ \A k \in 1 .. Len(draws) :
            rec.pos + k - 1 <= Len(rec.tape) => rec.tape[rec.pos + k - 1] = draws[k]

\* The record after an operation that consumed draws and made events.
Recorded(draws, events) ==
    IF ~rec.on THEN rec
    ELSE [rec EXCEPT
            !.tape = IF rec.pos + Len(draws) - 1 > Len(rec.tape)
                     THEN SubSeq(rec.tape, 1, rec.pos - 1) \o draws ELSE @,
            !.pos = @ + Len(draws),
            !.traj = [@ EXCEPT ![runs] = @ \o events]]

\* A trajectory event: what was done to which photon, and its state after it.
Event(op, id, p) == [op |-> op, photon |-> id, r |-> globalPosition(p),
                     ez |-> p.ez, weight |-> p.weight]

----------------------------------------------------------------------------
(* Geometry.propagate, one action per step of its loop *)

\* With the record on: the distance drawn for the venture under way (from a
\* volume interaction or the entry to the next volume interaction), the
\* distance the photon has been moved in it, its reflections, and whether a
\* distance was drawn again before it ended.
NoVenture == [drawn |-> 0, moved |-> 0, bounces |-> 0, redrawn |-> FALSE]

Tracked(venture) == IF rec.on THEN venture ELSE NoVenture

\* The events handed to the stats of the geometry in a call of propagate: how
\* many of each kind, the first and the last of them, and whether the photon
\* was in the frame of the geometry at each of them.
NoScore == [starts |-> 0, volumes |-> FALSE, crossings |-> 0, finals |-> 0,
            first |-> "none", last |-> "none", local |-> TRUE]

\* _scoreWhenStarting, _scoreInVolume, _scoreWhenExiting, _scoreWhenFinal: the
\* event goes to self.stats if self.stats is not None.
Scored(score, op, p, g) ==
    IF ~g.stats THEN score
    ELSE [score EXCEPT
            !.starts = IF op = "start" THEN @ + 1 ELSE @,
            !.volumes = @ \/ op = "volume",
            !.crossings = IF op = "crossing" THEN @ + 1 ELSE @,
            !.finals = IF op = "final" THEN @ + 1 ELSE @,
            !.first = IF @ = "none" THEN op ELSE @,
            !.last = op,
            !.local = @ /\ p.origin = g.origin]

Displacement(p, q) == IF q.r < p.r THEN p.r - q.r ELSE q.r - p.r

NoHist ==
    [w0 |-> 0, scored |-> 0, rouletteChanged |-> FALSE, lastBranch |-> "none",
     \* scored: the sum of the deltas passed to _scoreInVolume as long as
     \* roulette has not changed the weight.
     drew |-> FALSE, remainder |-> 0, before |-> 0, delta |-> 0,
     atInterface |-> FALSE, surfaceZ |-> 0, transmitted |-> FALSE,
     tail |-> <<>>, crossings |-> <<>>,
     \* how the photon came in, and what has happened to it since
     inside0 |-> FALSE, ez0 |-> 0, reflected |-> FALSE, interacted |-> FALSE,
     venture |-> NoVenture,
     \* the events the stats of the geometry has been handed
     score |-> NoScore]

\* What an operation adds to the history once the photon is being transmitted.
TailWith(op) == IF hist.transmitted THEN Append(hist.tail, op) ELSE hist.tail

WorldUnchanged == UNCHANGED <<geometries, sources, photonInit, notSupposed, err,
                              runs, srcIdx, cur, currentGeometry, pending, life,
                              loop, started, call, scene>>

\* Lines 18-20: transformToLocalCoordinates, _scoreWhenStarting, d = 0.
PropagateStart ==
    /\ pc = "propagate"
    /\ heap' = [heap EXCEPT ![cur] =
                    transformToLocalCoordinates(heap[cur], geometries[geo].origin)]
    /\ d' = 0
    /\ inter' = NoIntersection
    /\ hist' = [NoHist EXCEPT
                  !.w0 = heap[cur].weight, !.lastBranch = "first",
                  !.ez0 = heap[cur].ez,
                  !.score = Scored(NoScore, "start", heap'[cur], geometries[geo]),
                  !.inside0 = containsAt(geometries[geo],
                                         heap[cur].r - geometries[geo].origin, 1)]
    /\ rec' = IF geometries[geo].stats
              THEN Recorded(<<>>, <<Event("start", cur, heap[cur])>>)
              ELSE rec
    /\ pc' = "loop"
    /\ UNCHANGED geo
    /\ WorldUnchanged

\* Line 21: while photon.isAlive and self.contains(photon.r).
LoopCondition(p, g) == isAlive(p) /\ containsAt(g, p.r, 1)

LoopTest ==
    /\ pc = "loop"
    /\ pc' = IF LoopCondition(heap[cur], geometries[geo]) THEN "pick" ELSE "final"
    /\ hist' = [hist EXCEPT !.tail = TailWith("test")]
    /\ UNCHANGED <<heap, geo, d, inter, rec>>
    /\ WorldUnchanged

\* Line 23: a new distance is drawn if d <= 0.
MustDraw(dist) == dist <= 0

\* Lines 23-26: the distance, then the intersection within it.
PickDistance ==
    /\ pc = "pick"
    /\ \E nd \in Distances \cup {VeryFar} :
        LET draws == IF MustDraw(d) THEN <<nd>> ELSE <<>>
            dist == IF MustDraw(d) THEN nd ELSE d
            found == exitInterface(geometries[geo], GeometryRef(geo),
                                   heap[cur].r, heap[cur].ez, dist)
        IN /\ IF MustDraw(d)
              THEN nd \in getScatteringDistance(geometries[geo].material)
              ELSE nd = 1
           /\ DrawsAllowed(draws)
           /\ d' = dist
           /\ inter' = found
           /\ hist' = [hist EXCEPT
                         !.drew = MustDraw(d), !.tail = TailWith("draw"),
                         !.venture = Tracked(
                             IF ~MustDraw(d) THEN hist.venture
                             ELSE IF hist.lastBranch = "reflect"
                             THEN [NoVenture EXCEPT !.redrawn = TRUE]
                             ELSE [NoVenture EXCEPT !.drawn = nd])]
           /\ rec' = Recorded(draws, <<>>)
           /\ pc' = IF found.found THEN "interface" ELSE "volume"
    /\ UNCHANGED <<heap, geo>>
    /\ WorldUnchanged

VolumeDeltaWholeWeight(p, g) == p.weight

VolumeDeltaNothing(p, g) == 0

VolumeDeltaNegative(p, g) == -((p.weight * g.material.absorb) \div 10)

\* Line 37: delta = photon.weight * self.material.albedo.
VolumeDelta(p, g) == (p.weight * g.material.absorb) \div 10

\* Line 33: d = 0 after the move to the scattering point.
DistanceAfterVolume(dist) == 0

AfterVolumeNoRoulette == "loop"

\* Lines 61-62: the volume branch falls through to photon.roulette().
AfterVolume == "roulette"

\* Lines 32-43: move, absorb, score in volume, scatter.
VolumeInteraction ==
    /\ pc = "volume"
    /\ \E newEz \in ScatterDirections :
        LET moved == moveBy(heap[cur], d)
            delta == VolumeDelta(moved, geometries[geo])
            after == scatterBy(decreaseWeightBy(moved, delta), newEz)
        IN /\ DrawsAllowed(<<newEz>>)
           /\ heap' = [heap EXCEPT ![cur] = after]
           /\ hist' = [hist EXCEPT !.scored = IF hist.rouletteChanged THEN @ ELSE @ + delta,
                                   !.before = heap[cur].weight, !.delta = delta,
                                   !.lastBranch = "volume",
                                   !.interacted = TRUE,
                                   !.score = Scored(@, "volume",
                                                    decreaseWeightBy(moved, delta),
                                                    geometries[geo]),
                                   !.venture = Tracked(
                                       IF hist.venture.redrawn THEN hist.venture
                                       ELSE [hist.venture EXCEPT
                                               !.moved = @ + Displacement(heap[cur], moved)]),
                                   !.tail = TailWith("volume")]
           /\ rec' = Recorded(<<newEz>>, <<Event("move", cur, moved),
                                           Event("absorb", cur, after)>>)
    /\ d' = DistanceAfterVolume(d)
    /\ pc' = AfterVolume
    /\ UNCHANGED <<geo, inter>>
    /\ WorldUnchanged

MovedAwayOutward(p) == reflect(moveBy(p, Nudge))

\* Lines 51-52: photon.reflect(intersection), then photon.moveBy(d=1e-3).
MovedAway(p) == moveBy(reflect(p), Nudge)

RemainingDistanceRedrawn(dist, intersection) == 0

RemainingDistanceLessNudge(dist, intersection) == dist - intersection.distance - Nudge

\* Line 53: d -= intersection.distance.
RemainingDistance(dist, intersection) == dist - intersection.distance

\* Lines 46-53: move to the surface; if intersection.isReflected(): reflect, move
\* away from the surface, keep the rest of the distance.  Otherwise the photon is
\* to be transmitted.
AtInterface ==
    /\ pc = "interface"
    /\ \E isReflected \in BOOLEAN :
        LET moved == moveBy(heap[cur], inter.distance)
            away == MovedAway(moved)
        IN /\ DrawsAllowed(<<Bit(isReflected)>>)
           /\ IF isReflected
              THEN /\ heap' = [heap EXCEPT ![cur] = away]
                   /\ d' = RemainingDistance(d, inter)
                   /\ hist' = [hist EXCEPT !.lastBranch = "reflect",
                                           !.reflected = TRUE,
                                           !.venture = Tracked(
                                               IF hist.venture.redrawn THEN hist.venture
                                               ELSE [hist.venture EXCEPT
                                                       !.moved = @ + Displacement(heap[cur], moved)
                                                                   + Displacement(moved, away),
                                                       !.bounces = @ + 1]),
                                           !.remainder = d - inter.distance,
                                           !.tail = TailWith("reflect")]
                   /\ rec' = Recorded(<<Bit(isReflected)>>,
                                      <<Event("move", cur, moved),
                                        Event("reflect", cur, away)>>)
                   /\ pc' = "roulette"
              ELSE /\ heap' = [heap EXCEPT ![cur] = moved]
                   /\ d' = d
                   /\ hist' = [hist EXCEPT
                                 !.transmitted = TRUE, !.atInterface = TRUE,
                                 !.surfaceZ = geometries[geo].surfaces[inter.surface].z]
                   /\ rec' = Recorded(<<Bit(isReflected)>>,
                                      <<Event("move", cur, moved)>>)
                   /\ pc' = "refract"
    /\ UNCHANGED <<geo, inter>>
    /\ WorldUnchanged

\* Line 56: photon.refract(intersection).
Refract ==
    /\ pc = "refract"
    /\ heap' = [heap EXCEPT ![cur] = refract(heap[cur])]
    /\ hist' = [hist EXCEPT !.tail = TailWith("refract")]
    /\ rec' = Recorded(<<>>, <<Event("refract", cur, heap[cur])>>)
    /\ pc' = "exiting"
    /\ UNCHANGED <<geo, d, inter>>
    /\ WorldUnchanged

\* Geometry._scoreWhenExiting: stats.scoreWhenCrossing(photon) if there is a stats.
ScoreWhenExiting ==
    /\ pc = "exiting"
    /\ hist' = IF geometries[geo].stats
               THEN [hist EXCEPT !.tail = TailWith("crossing"),
                                 !.crossings = Append(@, heap[cur].r),
                                 !.score = Scored(@, "crossing", heap[cur],
                                                  geometries[geo])]
               ELSE hist
    /\ rec' = IF geometries[geo].stats
              THEN Recorded(<<>>, <<Event("crossing", cur, heap[cur])>>)
              ELSE rec
    /\ pc' = "leaving"
    /\ UNCHANGED <<heap, geo, d, inter>>
    /\ WorldUnchanged

AfterTransmissionNoBreak == "roulette"

\* Line 59: break.
AfterTransmission == "final"

\* Lines 58-59: move out of the geometry and leave the loop.
MoveOut ==
    /\ pc = "leaving"
    /\ heap' = [heap EXCEPT ![cur] = moveBy(heap[cur], Nudge)]
    /\ hist' = [hist EXCEPT !.tail = TailWith("move"), !.atInterface = FALSE]
    /\ rec' = Recorded(<<>>, <<Event("move", cur, moveBy(heap[cur], Nudge))>>)
    /\ pc' = AfterTransmission
    /\ UNCHANGED <<geo, d, inter>>
    /\ WorldUnchanged

\* Line 62: photon.roulette().
Roulette ==
    /\ pc = "roulette"
    /\ \E survives \in BOOLEAN :
        LET below == heap[cur].weight < RouletteThreshold /\ heap[cur].weight # 0
            draws == IF below THEN <<Bit(survives)>> ELSE <<>>
            after == roulette(heap[cur], survives)
        IN /\ below \/ survives
           /\ DrawsAllowed(draws)
           /\ heap' = [heap EXCEPT ![cur] = after]
           /\ hist' = [hist EXCEPT
                         !.rouletteChanged = @ \/ after.weight # heap[cur].weight,
                         !.tail = TailWith("roulette")]
           /\ rec' = Recorded(draws, IF below THEN <<Event("roulette", cur, after)>>
                                     ELSE <<>>)
    /\ pc' = "loop"
    /\ UNCHANGED <<geo, d, inter>>
    /\ WorldUnchanged

FinalOriginOfWorld(g) == 0

ScoredAfterTransform(p, g) == transformFromLocalCoordinates(p, g.origin)

\* Lines 67-68: _scoreWhenFinal is handed the photon before
\* transformFromLocalCoordinates.
ScoredAtFinal(p, g) == p

\* Line 68: the origin handed to transformFromLocalCoordinates.
FinalOrigin(g) == g.origin

\* Lines 67-68: _scoreWhenFinal, transformFromLocalCoordinates.
PropagateFinal ==
    /\ pc = "final"
    /\ heap' = [heap EXCEPT ![cur] =
                    transformFromLocalCoordinates(heap[cur],
                                                  FinalOrigin(geometries[geo]))]
    /\ hist' = [hist EXCEPT !.tail = TailWith("final"),
                            !.score = Scored(@, "final",
                                             ScoredAtFinal(heap[cur], geometries[geo]),
                                             geometries[geo])]
    /\ rec' = IF geometries[geo].stats
              THEN Recorded(<<>>, <<Event("final", cur, heap[cur])>>)
              ELSE rec
    /\ pc' = "returned"
    /\ UNCHANGED <<geo, d, inter>>
    /\ WorldUnchanged

Propagate ==
    \/ PropagateStart
    \/ LoopTest
    \/ PickDistance
    \/ VolumeInteraction
    \/ AtInterface
    \/ Refract
    \/ ScoreWhenExiting
    \/ MoveOut
    \/ Roulette
    \/ PropagateFinal

----------------------------------------------------------------------------
(* One call of Geometry.propagate on a placed Layer *)

Thicknesses == {2, 3}
LayerOrigins == {0, 2}
Absorbs == {0, 5, 9, 10}
Indices == {10, 14}
StartWeights == {WeightOne, 10 * RouletteThreshold, RouletteThreshold}

NoLoop == [active |-> FALSE, source |-> 0, yielded |-> <<>>, stopped |-> FALSE,
           listed |-> -1]
NoLife == [entered |-> {}, handed |-> {}, propagated |-> {}]
NoStart == [validated |-> 0, failed |-> FALSE, probed |-> 0]
NoRec == [on |-> FALSE, tape |-> <<>>, pos |-> 1, traj |-> <<>>]
NoCall == [op |-> "none"]

\* World.place(aGeometry, position): origin = position.
Placed(object, position) == [object EXCEPT !.origin = position]

InitPropagate ==
    /\ \E o \in LayerOrigins, st \in BOOLEAN, a \in Absorbs :
        \/ \E t \in Thicknesses, m \in {Material(a, 14), ClearMaterial(14)} :
              geometries = <<Placed(Layer(t, m, st), o)>>
        \/ \E size \in BoxSizes :
              geometries = <<Placed(Box(size, Material(a, 14), st), o)>>
    /\ sources = <<>>
    /\ photonInit = NoneRef
    /\ \E z \in -1 .. 6, ez \in ScatterDirections, w \in StartWeights :
        heap = <<[NewPhoton(z, ez) EXCEPT !.weight = w]>>
    /\ notSupposed = 0
    /\ pc = "propagate"
    /\ err = "none"
    /\ runs = 0
    /\ srcIdx = 0
    /\ cur = 1
    /\ currentGeometry = GeometryRef(1)
    /\ pending = <<>>
    /\ geo = 1
    /\ d = 0
    /\ inter = NoIntersection
    /\ hist = NoHist
    /\ life = NoLife
    /\ loop = NoLoop
    /\ started = NoStart
    /\ scene = NoScene
    /\ rec = NoRec
    /\ call = NoCall

\* The call returns to its caller.
PropagateReturn ==
    /\ pc = "returned"
    /\ pc' = "done"
    /\ UNCHANGED <<heap, geo, d, inter, hist, rec>>
    /\ WorldUnchanged

NextPropagate == Propagate \/ PropagateReturn

SpecPropagate == InitPropagate /\ [][NextPropagate]_vars

----------------------------------------------------------------------------
(* Claims about one call of Geometry.propagate *)

InCallSteps == {"loop", "pick", "volume", "interface", "refract", "exiting",
                "leaving", "roulette", "final", "returned"}
InCall == pc \in InCallSteps

\* C1: as long as roulette has not changed the photon's weight, at every point of
\* Geometry.propagate and on return the weight on entry equals the sum of the
\* deltas passed to the in-volume score plus the current weight; a volume
\* interaction removes weight * albedo and scores that amount, and nothing else
\* changes the weight.
C1_EnergyConserved ==
    InCall =>
        /\ ~hist.rouletteChanged => hist.w0 = hist.scored + heap[cur].weight
        /\ pc = "roulette" /\ hist.lastBranch = "volume" =>
              /\ hist.delta = (hist.before * geometries[geo].material.absorb) \div 10
              /\ heap[cur].weight = hist.before - hist.delta

\* A photon that lost weight in volume interactions and left the geometry alive,
\* roulette never having changed its weight.
C1_Witness ==
    /\ pc = "returned"
    /\ hist.scored > 0
    /\ ~hist.rouletteChanged
    /\ hist.transmitted
    /\ heap[cur].weight > 0

\* C3: in Geometry.propagate a distance is drawn on the first iteration and on the
\* iteration after a volume interaction; after a reflection at distance d' the
\* next iteration uses the remainder d - d' and draws no new distance, unless that
\* remainder is <= 0.
C3_DistanceCarriedOver ==
    pc \in {"volume", "interface"} =>
        /\ hist.lastBranch \in {"first", "volume"} => hist.drew
        /\ hist.lastBranch = "reflect" /\ hist.remainder > 0 =>
              ~hist.drew /\ d = hist.remainder
        /\ hist.lastBranch = "reflect" /\ hist.remainder <= 0 => hist.drew

\* An iteration after a reflection that goes on with the rest of the distance.
C3_Witness ==
    /\ pc \in {"volume", "interface"}
    /\ hist.lastBranch = "reflect"
    /\ hist.remainder > 0
    /\ ~hist.drew

IsPrefix(s, t) == Len(s) <= Len(t) /\ s = SubSeq(t, 1, Len(s))

\* C4 as stated: a photon moved to an interface and not reflected is refracted,
\* exactly one crossing event is emitted with its position on the interface, it
\* is moved 1e-3 along its direction and the loop is left, with no volume
\* interaction, distance draw, reflection or roulette in the rest of the call.
C4_OneCrossingEvent ==
    pc = "returned" /\ hist.transmitted =>
        /\ hist.tail = <<"refract", "crossing", "move", "final">>
        /\ hist.crossings = <<hist.surfaceZ>>

\* What follows the decision not to reflect, on a geometry with and without stats.
TransmissionSteps(g) ==
    IF g.stats THEN <<"refract", "crossing", "move", "final">>
    ELSE <<"refract", "move", "final">>

\* C4, amended: a photon moved to an interface and not reflected is refracted, a
\* geometry that has a scorer emits exactly one crossing event with the photon's
\* position on the interface (a geometry without a scorer emits none), the photon
\* is moved 1e-3 along its direction and the loop is left: no volume interaction,
\* distance draw, reflection or roulette happens in the rest of the call.
C4_TransmissionOrder ==
    InCall /\ hist.transmitted =>
        /\ IsPrefix(hist.tail, TransmissionSteps(geometries[geo]))
        /\ Len(hist.crossings) <= 1
        /\ pc = "returned" =>
              /\ hist.tail = TransmissionSteps(geometries[geo])
              /\ hist.crossings =
                    IF geometries[geo].stats THEN <<hist.surfaceZ>> ELSE <<>>
              /\ globalPosition(heap[cur]) - geometries[geo].origin
                    = hist.surfaceZ + heap[cur].ez * Nudge

\* A transmitted photon whose crossing was scored, after the call.
C4_Witness ==
    /\ pc = "returned"
    /\ hist.transmitted
    /\ geometries[geo].stats
    /\ Len(hist.crossings) = 1

\* A call on a photon that came in alive, inside the Layer and along +z, the
\* Layer's material being clear, and that no interface has reflected.
StraightThrough ==
    /\ geometries[geo].kind = "Layer"
    /\ geometries[geo].material.clear
    /\ hist.w0 > 0
    /\ hist.inside0
    /\ hist.ez0 = 1
    /\ ~hist.reflected

\* C17 as stated: a photon of a clear material (mu_a = mu_s = 0) that travels
\* along the normal inside a Layer whose interfaces transmit has no volume
\* interaction, and Geometry.propagate returns with the photon alive, its
\* weight and its direction unchanged, and exactly one crossing event emitted,
\* at the Back surface.
C17_StraightThroughScored ==
    InCall /\ StraightThrough =>
        /\ ~hist.interacted
        /\ pc = "returned" =>
              /\ isAlive(heap[cur])
              /\ heap[cur].weight = hist.w0
              /\ heap[cur].ez = hist.ez0
              /\ hist.crossings = <<geometries[geo].thickness>>

\* C17, amended: the same, the crossing event being emitted by a Layer that has
\* a scorer, and none by a Layer without one.
C17_StraightThrough ==
    InCall /\ StraightThrough =>
        /\ ~hist.interacted
        /\ pc = "returned" =>
              /\ isAlive(heap[cur])
              /\ heap[cur].weight = hist.w0
              /\ heap[cur].ez = hist.ez0
              /\ hist.transmitted
              /\ hist.surfaceZ = geometries[geo].thickness
              /\ hist.crossings = IF geometries[geo].stats
                                  THEN <<geometries[geo].thickness>> ELSE <<>>

\* A photon that went straight through a clear Layer with a scorer, from below
\* the Back surface, after the call.
C17_Witness ==
    /\ pc = "returned"
    /\ StraightThrough
    /\ geometries[geo].stats
    /\ hist.transmitted
    /\ hist.w0 = WeightOne
    /\ hist.crossings = <<geometries[geo].thickness>>
    /\ globalPosition(heap[cur]) = geometries[geo].origin + geometries[geo].thickness + Nudge

\* The place of roulette among the steps of the loop: it follows a volume
\* interaction at once, it is followed by the test of the loop and only then by
\* the next distance and intersection, it moves nothing, and it is not reached
\* once the photon is being transmitted.
RouletteInOrder ==
    /\ pc = "volume" => pc' = "roulette" /\ hist'.lastBranch = "volume"
    /\ pc = "roulette" =>
          /\ pc' = "loop"
          /\ heap'[cur].r = heap[cur].r /\ heap'[cur].ez = heap[cur].ez
          /\ UNCHANGED <<d, inter>>
    /\ pc = "loop" => pc' \in {"pick", "final"}
    /\ pc' = "roulette" => pc \in {"volume", "interface"} /\ ~hist'.transmitted
    /\ hist.transmitted => pc' \notin {"roulette", "pick", "volume", "interface"}

\* C19: in Geometry.propagate roulette is applied once after every volume
\* interaction, before the next free-flight step or intersection test of the
\* photon, and never in the iteration in which the photon was transmitted.
C19_RouletteAfterVolume ==
    [](pc = "roulette" => ~hist.transmitted) /\ [][RouletteInOrder]_vars

\* The roulette that followed a volume interaction has changed the weight of
\* the photon, and the loop is at its test again.
C19_Witness ==
    /\ pc = "loop"
    /\ hist.lastBranch = "volume"
    /\ hist.rouletteChanged
    /\ ~hist.transmitted

\* Geometry.propagate has returned a live photon that came in alive and inside
\* the geometry.
ReturnedAlive ==
    /\ pc = "returned"
    /\ isAlive(heap[cur])
    /\ hist.inside0
    /\ hist.w0 > 0

InitVenture ==
    /\ \E t \in Thicknesses, o \in LayerOrigins, a \in {5, 10} :
        geometries = <<Placed(Layer(t, Material(a, 14), TRUE), o)>>
    /\ sources = <<>>
    /\ photonInit = NoneRef
    /\ \E z \in 0 .. 5, ez \in ScatterDirections :
        heap = <<NewPhoton(z, ez)>>
    /\ notSupposed = 0
    /\ pc = "propagate"
    /\ err = "none"
    /\ runs = 1
    /\ srcIdx = 0
    /\ cur = 1
    /\ currentGeometry = GeometryRef(1)
    /\ pending = <<>>
    /\ geo = 1
    /\ d = 0
    /\ inter = NoIntersection
    /\ hist = NoHist
    /\ life = NoLife
    /\ loop = NoLoop
    /\ started = NoStart
    /\ scene = NoScene
    /\ rec = [on |-> TRUE, tape |-> <<>>, pos |-> 1, traj |-> << <<>> >>]
    /\ call = NoCall

SpecVenture == InitVenture /\ [][NextPropagate]_vars

\* A volume interaction has just ended a venture in which no distance was
\* drawn again.
VentureOver ==
    /\ rec.on
    /\ pc = "roulette"
    /\ hist.lastBranch = "volume"
    /\ ~hist.venture.redrawn

\* C25 as stated: between two consecutive volume interactions of a photon in
\* Geometry.propagate the total distance the photon is moved equals the
\* free-flight distance d drawn for that venture, whatever the number of
\* reflections in between.
C25_VentureIsDrawnDistance ==
    VentureOver => hist.venture.moved = hist.venture.drawn

\* C25, amended: the total distance moved is the distance drawn plus 1e-3 for
\* each reflection in between, the move away from the surface not being taken
\* off the remaining distance.
C25_VentureDistance ==
    /\ VentureOver =>
          hist.venture.moved = hist.venture.drawn + Nudge * hist.venture.bounces
    /\ rec.on /\ pc \in {"volume", "interface"} /\ ~hist.venture.redrawn =>
          hist.venture.moved + d = hist.venture.drawn + Nudge * hist.venture.bounces

\* A venture with two reflections, ended by a volume interaction.
C25_Witness ==
    /\ VentureOver
    /\ hist.venture.bounces = 2
    /\ hist.venture.moved = hist.venture.drawn + 2 * Nudge

----------------------------------------------------------------------------
(* World *)

\* Directions of the probe photons of validateGeometrySurfaceNormals: one
\* direction stands for the 10000 isotropic ones, 0 for one that is parallel to
\* the surfaces of a Layer.
ProbeDirections == {-1, 0, 1}

\* Geometry.validateGeometrySurfaceNormals for one probe direction: the
\* exception it ends with, "none" if every assertion holds.  self is the
\* reference to g.
validateGeometrySurfaceNormals(g, self, direction) ==
    IF ContainsRaises(g) THEN "NotImplementedError"
    ELSE IF ~Contains(g, g.center) THEN "AssertionError"
    ELSE LET origin == g.center
             final == origin + direction * ValidateMaxDist
             leaving == nextEntranceInterface(g, self, origin, direction,
                                              ValidateMaxDist)
             exit == nextExitInterface(g, self, origin, direction, ValidateMaxDist)
             entering == nextExitInterface(g, self, final, -direction,
                                           ValidateMaxDist)
             entrance == nextEntranceInterface(g, self, final, -direction,
                                               ValidateMaxDist)
         IN IF leaving.found THEN "AssertionError"
            ELSE IF ~exit.found THEN "AssertionError"
            ELSE IF g.surfaces[exit.surface].z # g.center + exit.distance * direction
            THEN "AssertionError"
            ELSE IF g.surfaces[exit.surface].indexOutside # 10 THEN "AssertionError"
            ELSE IF exit.geometry # self THEN "AssertionError"
            ELSE IF entering.found THEN "AssertionError"
            ELSE IF ~entrance.found THEN "AssertionError"
            ELSE IF g.surfaces[entrance.surface].z
                        # final + entrance.distance * (-direction)
            THEN "AssertionError"
            ELSE IF entrance.geometry # self THEN "AssertionError"
            ELSE "none"

\* World._startCalculation, lines 167-169: the indices of the surfaces of g.
AssignIndices(g) ==
    [g EXCEPT !.surfaces =
        [k \in 1 .. Len(g.surfaces) |->
            [g.surfaces[k] EXCEPT !.indexInside = g.material.index,
                                  !.indexOutside = 10]]]

ExceptCatchesAssertionsOnly(exception) == exception = "AssertionError"

\* World._startCalculation, line 172: except Exception.
ExceptCatches(exception) ==
    exception \in {"AssertionError", "NotImplementedError"}

\* World._startCalculation, lines 166-173: the loop over self.geometries from
\* geometry i on: the geometries after it, the exception that ended it, the
\* number of geometries validated and whether a validation failed.
RECURSIVE ValidateFrom(_, _, _, _)
ValidateFrom(gs, i, probes, failed) ==
    IF i > Len(gs)
    THEN [geometries |-> gs, raised |-> "none", validated |-> i - 1, failed |-> failed]
    ELSE LET g == AssignIndices(gs[i])
             outcome == validateGeometrySurfaceNormals(g, GeometryRef(i), probes[i])
         IN IF outcome = "none"
            THEN ValidateFrom([gs EXCEPT ![i] = g], i + 1, probes, failed)
            ELSE IF ExceptCatches(outcome)
            THEN ValidateFrom([gs EXCEPT ![i] = g], i + 1, probes, TRUE)
            ELSE [geometries |-> [gs EXCEPT ![i] = g], raised |-> outcome,
                  validated |-> i, failed |-> TRUE]

\* Geometry.validateGeometrySurfaceNormals, lines 178-181: the loop over the
\* photons of the IsotropicSource is reached, and the source generates them.
ProbesGenerated(g) == ~ContainsRaises(g) /\ Contains(g, g.center)

\* What a call of _startCalculation leaves behind: the number of geometries it
\* validated, whether a validation failed, and the number of geometries whose
\* validation generated probe photons.
Started(begun) ==
    [validated |-> begun.validated, failed |-> begun.failed,
     probed |-> Cardinality({i \in 1 .. begun.validated :
                                ProbesGenerated(begun.geometries[i])})]

\* World._startCalculation, line 163.
NoGeometries(gs) == Len(gs) = 0

NoSourcesUnchecked(ss) == FALSE

\* World._startCalculation, line 175.
NoSources(ss) == Len(ss) = 0

\* World._startCalculation: the geometries after it and the exception it raises.
startCalculation(gs, ss, probes) ==
    IF NoGeometries(gs)
    THEN [geometries |-> gs, raised |-> "SyntaxError", validated |-> 0,
          failed |-> FALSE]
    ELSE LET checked == ValidateFrom(gs, 1, probes, FALSE)
         IN IF checked.raised # "none" THEN checked
            ELSE IF NoSources(ss) THEN [checked EXCEPT !.raised = "SyntaxError"]
            ELSE checked

LocalCoordinatesUnshifted(worldCoordinates, origin) == worldCoordinates

\* World._contains, line 124: localCoordinates = worldCoordinates - geometry.origin.
LocalCoordinates(worldCoordinates, origin) == worldCoordinates - origin

\* World._contains: the loop over self.geometries from geometry i on.
RECURSIVE ContainsFrom(_, _, _)
ContainsFrom(gs, i, worldCoordinates) ==
    IF i > Len(gs) THEN [raised |-> "none", geometry |-> NoneRef]
    ELSE IF ContainsRaises(gs[i])
    THEN [raised |-> "NotImplementedError", geometry |-> NoneRef]
    ELSE IF Contains(gs[i], LocalCoordinates(worldCoordinates, gs[i].origin))
    THEN [raised |-> "none", geometry |-> GeometryRef(i)]
    ELSE ContainsFrom(gs, i + 1, worldCoordinates)

\* World._contains
worldContains(gs, worldCoordinates) == ContainsFrom(gs, 1, worldCoordinates)

\* World._nextObstacle: the loop over self.geometries from geometry i on, with
\* the photon, the shortest distance and the closest intersection so far.
RECURSIVE ObstacleFrom(_, _, _, _, _)
ObstacleFrom(gs, i, p, shortestDistance, closestIntersect) ==
    IF i > Len(gs) THEN [photon |-> p, intersection |-> closestIntersect]
    ELSE LET local == transformToLocalCoordinates(p, gs[i].origin)
             someIntersection == nextEntranceInterface(gs[i], GeometryRef(i), local.r,
                                                       local.ez, shortestDistance)
             back == transformFromLocalCoordinates(local, gs[i].origin)
         IN IF someIntersection.found /\ someIntersection.distance < shortestDistance
            THEN ObstacleFrom(gs, i + 1, back, someIntersection.distance,
                              someIntersection)
            ELSE ObstacleFrom(gs, i + 1, back, shortestDistance, closestIntersect)

\* World._nextObstacle
nextObstacle(gs, p) ==
    IF ~isAlive(p) THEN [photon |-> p, intersection |-> NoIntersection]
    ELSE ObstacleFrom(gs, 1, p, WorldMaxDist, NoIntersection)

----------------------------------------------------------------------------
(* World.place, World.oldCompute and World.compute *)

\* The geometries placed, each with its position: two adjacent layers of a
\* material that absorbs the whole weight at a volume interaction, and a
\* KleinBottle.
WorldPlacements ==
    {<<Layer(2, Material(10, 14), TRUE), 0>>, <<Layer(2, Material(10, 14), TRUE), 2>>,
     <<KleinBottle(Material(10, 14)), 0>>}
\* The positions of the sources: in front of the layers and inside the first one.
SourcePositions == {-2, 1}

RECURSIVE TotalCount(_)
TotalCount(ss) == IF ss = <<>> THEN 0 ELSE Head(ss).maxCount + TotalCount(Tail(ss))

CallUnchanged == UNCHANGED <<geo, d, inter, hist, call>>

\* The locals of a call of Geometry.propagate are gone once it has returned.
CallReturned ==
    geo' = 0 /\ d' = 0 /\ inter' = NoIntersection /\ hist' = NoHist /\ UNCHANGED call

RegisteredFirst(list, object) == <<object>> \o list

\* World.place, lines 19 and 22: self.geometries.append / self.sources.append.
Registered(list, object) == Append(list, object)

\* World.place, lines 17-19: a Geometry.
PlaceGeometry ==
    /\ pc = "idle"
    /\ runs = 0
    /\ Len(geometries) < MaxGeometries
    /\ \E placement \in WorldPlacements :
        geometries' = Registered(geometries, Placed(placement[1], placement[2]))
    /\ UNCHANGED <<scene, started, sources, heap, photonInit, notSupposed, pc, err, runs, srcIdx,
                   cur, currentGeometry, pending, life, loop, rec>>
    /\ CallUnchanged

\* World.place, lines 20-22: a Source.
PlaceSource ==
    /\ pc = "idle"
    /\ runs = 0
    /\ \E maxCount \in 1 .. MaxPhotons - TotalCount(sources),
          position \in SourcePositions :
        sources' = Registered(sources, Placed(NewSource(1, maxCount), position))
    /\ UNCHANGED <<scene, started, geometries, heap, photonInit, notSupposed, pc, err, runs, srcIdx,
                   cur, currentGeometry, pending, life, loop, rec>>
    /\ CallUnchanged

\* The record when a compute call starts: the call replays the stream of draws.
RecordAtStart == IF rec.on THEN [rec EXCEPT !.pos = 1, !.traj = Append(@, <<>>)]
                 ELSE rec

\* World.oldCompute, line 25: _startCalculation.
OldComputeStart ==
    /\ pc = "idle"
    /\ runs < MaxRuns
    /\ runs' = runs + 1
    /\ \E probes \in [1 .. Len(geometries) -> ProbeDirections] :
        LET begun == startCalculation(geometries, sources, probes)
        IN /\ geometries' = begun.geometries
           /\ err' = begun.raised
           /\ started' = Started(begun)
           /\ UNCHANGED scene
           /\ pc' = IF begun.raised = "none" THEN "forSource" ELSE "idle"
    /\ srcIdx' = 0
    /\ cur' = 0
    /\ currentGeometry' = NoneRef
    /\ life' = NoLife
    /\ loop' = NoLoop
    /\ rec' = RecordAtStart
    /\ UNCHANGED <<sources, heap, photonInit, notSupposed, pending>>
    /\ CallUnchanged

\* World.oldCompute, lines 27-30 and 43: the next source and its __iter__, or
\* _completeCalculation after the last one.
ForSource ==
    /\ pc = "forSource"
    /\ IF srcIdx = Len(sources)
       THEN /\ pc' = "idle"
            /\ UNCHANGED <<sources, srcIdx, loop>>
       ELSE /\ pc' = "forPhoton"
            /\ srcIdx' = srcIdx + 1
            /\ sources' = [sources EXCEPT ![srcIdx + 1] = SourceIter(@)]
            /\ loop' = [NoLoop EXCEPT !.active = TRUE, !.source = srcIdx + 1]
    /\ UNCHANGED <<scene, started, geometries, heap, photonInit, notSupposed, err, runs, cur,
                   currentGeometry, pending, life, rec>>
    /\ CallUnchanged

\* What a for-loop has been given: the photon and its state when it was yielded.
Yielded(id, h) == [photon |-> id, weight |-> h[id].weight]

\* World.oldCompute, line 30: __next__ of the source.
NextPhoton ==
    /\ pc = "forPhoton"
    /\ IF NextStops(sources[srcIdx])
       THEN /\ pc' = "forSource"
            /\ loop' = [loop EXCEPT !.stopped = TRUE]
            /\ UNCHANGED <<sources, heap, cur>>
       ELSE LET got == SourceNext(sources[srcIdx], heap)
            IN /\ sources' = [sources EXCEPT ![srcIdx] = got.source]
               /\ heap' = got.heap
               /\ cur' = got.photon
               /\ loop' = [loop EXCEPT !.yielded = Append(@, Yielded(got.photon,
                                                                     got.heap))]
               /\ pc' = "locate"
    /\ UNCHANGED <<scene, started, geometries, photonInit, notSupposed, err, runs, srcIdx,
                   currentGeometry, pending, life, rec>>
    /\ CallUnchanged

\* World.oldCompute, line 31: currentGeometry = self._contains(...).
Locate ==
    /\ pc = "locate"
    /\ LET found == worldContains(geometries, globalPosition(heap[cur]))
       IN /\ err' = found.raised
          /\ currentGeometry' = found.geometry
          /\ pc' = IF found.raised = "none" THEN "while" ELSE "idle"
    /\ life' = NoLife
    /\ UNCHANGED <<scene, started, geometries, sources, heap, photonInit, notSupposed, runs, srcIdx,
                   cur, pending, loop, rec>>
    /\ CallUnchanged

\* World.oldCompute, lines 32-39: while photon.isAlive, propagate in the current
\* geometry or in the world.
PhotonLoopEndsAtOnce(p) == TRUE

\* World.oldCompute, line 32: the while loop of a photon is over.
PhotonLoopEnds(p) == ~isAlive(p)

WhileAlive ==
    /\ pc = "while"
    /\ IF PhotonLoopEnds(heap[cur])
       THEN pc' = "forPhoton" /\ UNCHANGED <<geo, life>>
       ELSE IF currentGeometry # NoneRef
       THEN /\ pc' = "propagate"
            /\ geo' = currentGeometry.idx
            /\ life' = [life EXCEPT !.propagated = @ \cup {currentGeometry.idx}]
       ELSE pc' = "worldEntry" /\ UNCHANGED <<geo, life>>
    /\ UNCHANGED <<scene, started, geometries, sources, heap, photonInit, notSupposed, err, runs,
                   srcIdx, cur, currentGeometry, pending, loop, rec, d, inter, hist,
                   call>>

\* World.oldCompute, line 37: currentGeometry = self._contains(...) after
\* currentGeometry.propagate(photon).
AfterPropagate ==
    /\ pc = "returned"
    /\ LET found == worldContains(geometries, globalPosition(heap[cur]))
       IN /\ err' = found.raised
          /\ currentGeometry' = found.geometry
          /\ pc' = IF found.raised = "none" THEN "while" ELSE "idle"
          /\ life' = IF hist.transmitted /\ isAlive(heap[cur])
                        /\ found.geometry # NoneRef
                     THEN [life EXCEPT !.handed = @ \cup {found.geometry.idx}]
                     ELSE life
    /\ CallReturned
    /\ UNCHANGED <<scene, started, geometries, sources, heap, photonInit, notSupposed, runs, srcIdx,
                   cur, pending, loop, rec>>

\* World._propagate, lines 96-99.
WorldPropagateEntry ==
    /\ pc = "worldEntry"
    /\ IF heap[cur].currentGeometry # WorldRef
       THEN /\ notSupposed' = notSupposed + 1
            /\ heap' = [heap EXCEPT ![cur].weight = 0]
            /\ rec' = Recorded(<<>>, <<Event("kill", cur, heap'[cur])>>)
            /\ pc' = "while"
       ELSE /\ pc' = "worldLoop"
            /\ UNCHANGED <<notSupposed, heap, rec>>
    /\ UNCHANGED <<scene, started, geometries, sources, photonInit, err, runs, srcIdx, cur,
                   currentGeometry, pending, life, loop>>
    /\ CallUnchanged

\* World._propagate, lines 101-120: one iteration of its loop, or its return.
WorldPropagateLoop ==
    /\ pc = "worldLoop"
    /\ IF ~(isAlive(heap[cur]) /\ heap[cur].currentGeometry = WorldRef)
       THEN pc' = "while" /\ UNCHANGED <<heap, life, rec>>
       ELSE
        LET looked == nextObstacle(geometries, heap[cur])
            intersection == looked.intersection
            moved == moveBy(looked.photon, intersection.distance)
            away == moveBy(reflect(moved), Nudge)
            inside == [moveBy(refract(moved), Nudge) EXCEPT
                          !.currentGeometry = intersection.geometry]
        IN /\ pc' = "worldLoop"
           /\ IF intersection.found
              THEN \E isReflected \in BOOLEAN :
                    /\ DrawsAllowed(<<Bit(isReflected)>>)
                    /\ IF isReflected
                       THEN /\ heap' = [heap EXCEPT ![cur] = away]
                            /\ life' = life
                            /\ rec' = Recorded(<<Bit(isReflected)>>,
                                               <<Event("move", cur, moved),
                                                 Event("reflect", cur, away)>>)
                       ELSE /\ heap' = [heap EXCEPT ![cur] = inside]
                            /\ life' = [life EXCEPT
                                          !.entered = @ \cup {intersection.geometry.idx}]
                            /\ rec' = Recorded(<<Bit(isReflected)>>,
                                               <<Event("move", cur, moved),
                                                 Event("enter", cur, inside)>>)
              ELSE /\ heap' = [heap EXCEPT ![cur] =
                                  [looked.photon EXCEPT !.weight = 0]]
                   /\ life' = life
                   /\ rec' = Recorded(<<>>, <<Event("escape", cur, heap'[cur])>>)
    /\ UNCHANGED <<scene, started, geometries, sources, photonInit, notSupposed, err, runs, srcIdx,
                   cur, currentGeometry, pending, loop>>
    /\ CallUnchanged

\* World.photons: getPhotons of every source from source i on: the sources, the
\* heap and the photons.
RECURSIVE PhotonsFrom(_, _, _, _)
PhotonsFrom(ss, h, i, photons) ==
    IF i > Len(ss) THEN [sources |-> ss, heap |-> h, photons |-> photons]
    ELSE LET got == SourceGetPhotons(ss[i], h)
         IN PhotonsFrom([ss EXCEPT ![i] = got.source], got.heap, i + 1,
                        photons \o got.source.photons)

\* World.compute, lines 69-74: _startCalculation, then self.photons.
ComputeStart ==
    /\ pc = "idle"
    /\ runs < MaxRuns
    /\ runs' = runs + 1
    /\ \E probes \in [1 .. Len(geometries) -> ProbeDirections] :
        LET begun == startCalculation(geometries, sources, probes)
            photons == PhotonsFrom(sources, heap, 1, <<>>)
        IN /\ geometries' = begun.geometries
           /\ err' = begun.raised
           /\ started' = Started(begun)
           /\ UNCHANGED scene
           /\ IF begun.raised = "none"
              THEN /\ pc' = "compute"
                   /\ sources' = photons.sources
                   /\ heap' = photons.heap
                   /\ pending' = photons.photons
              ELSE /\ pc' = "idle"
                   /\ UNCHANGED <<sources, heap, pending>>
    /\ srcIdx' = 0
    /\ cur' = 0
    /\ currentGeometry' = NoneRef
    /\ life' = NoLife
    /\ loop' = NoLoop
    /\ rec' = RecordAtStart
    /\ UNCHANGED <<photonInit, notSupposed>>
    /\ CallUnchanged

\* World.compute, lines 74-76: photon.setContext, photon.propagate for the next
\* photon: the photon goes through its whole lifetime.
ComputePhoton ==
    /\ pc = "compute"
    /\ IF pending = <<>>
       THEN pc' = "idle" /\ UNCHANGED <<heap, cur, pending>>
       ELSE /\ cur' = Head(pending)
            /\ heap' = [heap EXCEPT ![Head(pending)].weight = 0]
            /\ pending' = Tail(pending)
            /\ pc' = "compute"
    /\ UNCHANGED <<scene, started, geometries, sources, photonInit, notSupposed, err, runs, srcIdx,
                   currentGeometry, life, loop, rec>>
    /\ CallUnchanged

Init ==
    /\ geometries = <<>>
    /\ sources = <<>>
    /\ heap = <<>>
    /\ photonInit \in {NoneRef, WorldRef}
    /\ notSupposed = 0
    /\ pc = "idle"
    /\ err = "none"
    /\ runs = 0
    /\ srcIdx = 0
    /\ cur = 0
    /\ currentGeometry = NoneRef
    /\ pending = <<>>
    /\ geo = 0
    /\ d = 0
    /\ inter = NoIntersection
    /\ hist = NoHist
    /\ life = NoLife
    /\ loop = NoLoop
    /\ started = NoStart
    /\ scene = NoScene
    /\ rec = NoRec
    /\ call = NoCall

Next ==
    \/ PlaceGeometry
    \/ PlaceSource
    \/ OldComputeStart
    \/ ForSource
    \/ NextPhoton
    \/ Locate
    \/ WhileAlive
    \/ Propagate
    \/ AfterPropagate
    \/ WorldPropagateEntry
    \/ WorldPropagateLoop
    \/ ComputeStart
    \/ ComputePhoton

Spec == Init /\ [][Next]_vars

----------------------------------------------------------------------------
(* Claims about World.oldCompute and World.compute *)

\* The photon's processing in oldCompute is over: the while loop of line 32 has
\* been left.
LifetimeOver == pc = "forPhoton" /\ cur # 0

\* C2: in World.oldCompute a photon launched outside every geometry that reaches
\* the entrance surface of a geometry and is transmitted through it is propagated
\* in that geometry (Geometry.propagate is called for it) before its lifetime
\* ends, and a photon transmitted out of a geometry into an adjacent one is
\* propagated in the adjacent one.
C2_EnteredThenPropagated ==
    LifetimeOver => (life.entered \cup life.handed) \subseteq life.propagated

\* A photon transmitted out of a layer into the adjacent one, and propagated in it.
C2_Witness ==
    /\ LifetimeOver
    /\ life.handed # {}
    /\ life.handed \subseteq life.propagated

\* C5: no exception raised while a photon is processed propagates out of
\* World.oldCompute: the photon is terminated with weight 0 and every remaining
\* photon of every source is processed.
C5_PhotonErrorsContained ==
    pc = "idle" /\ runs > 0 /\ err # "SyntaxError" =>
        /\ err = "none"
        /\ \A i \in 1 .. Len(sources) : Len(sources[i].photons) = sources[i].maxCount
        /\ \A id \in 1 .. Len(heap) : heap[id].weight = 0

\* C6 as stated: World.oldCompute and World.compute raise an error before any
\* photon is generated or propagated when no geometry has been placed, and
\* likewise when no source has been placed.
C6_FailsFast ==
    Len(geometries) = 0 \/ Len(sources) = 0 =>
        /\ pc = "idle"
        /\ heap = <<>>
        /\ cur = 0
        /\ started.probed = 0
        /\ runs > 0 => err = "SyntaxError"

\* C6: World.oldCompute and World.compute raise an error when no geometry or no
\* source has been placed, before any photon of a placed source is generated or
\* propagated; without a geometry nothing is validated, and without a source
\* the error comes after the validation of every geometry, whose probe photons
\* have been generated by then.
C6_FailsBeforeSourcePhotons ==
    Len(geometries) = 0 \/ Len(sources) = 0 =>
        /\ pc = "idle"
        /\ heap = <<>>
        /\ cur = 0
        /\ runs > 0 =>
            /\ err = "SyntaxError"
            /\ started.validated = Len(geometries)
            /\ started.probed =
                    Cardinality({i \in 1 .. Len(geometries) :
                                    ProbesGenerated(geometries[i])})

\* A compute call on a World with a validated Layer and no source has ended.
C6_Witness ==
    /\ runs > 0
    /\ Len(geometries) > 0
    /\ Len(sources) = 0
    /\ started.probed > 0
    /\ err = "SyntaxError"

\* Every surface of every placed geometry has its indices.
IndicesAssigned ==
    \A i \in 1 .. Len(geometries) :
        \A k \in 1 .. Len(geometries[i].surfaces) :
            /\ geometries[i].surfaces[k].indexInside = geometries[i].material.index
            /\ geometries[i].surfaces[k].indexOutside = 10

\* C7: a validateGeometrySurfaceNormals that fails, by an assertion or by any
\* other Exception, does not make World._startCalculation raise: the indices are
\* assigned and the validation is done for every geometry, and with a source
\* placed the run goes on to its photons.
C7_ValidationFailureNotFatal ==
    runs > 0 /\ Len(geometries) > 0 =>
        /\ started.validated = Len(geometries)
        /\ IndicesAssigned
        /\ err \notin {"AssertionError"}
        /\ err = "SyntaxError" <=> (pc = "idle" /\ Len(sources) = 0)
        /\ pc = "idle" /\ err = "NotImplementedError" => cur # 0

\* A photon is propagated in a geometry in a run whose validation failed.
C7_Witness ==
    /\ started.failed
    /\ Len(geometries) > 1
    /\ pc = "volume"

\* Surface k of geometry i and surface l of another geometry j lie in the same
\* plane of the world and face each other: the two geometries share a boundary.
SharedBoundary(i, k, j, l) ==
    /\ i # j
    /\ geometries[i].origin + geometries[i].surfaces[k].z
          = geometries[j].origin + geometries[j].surfaces[l].z
    /\ geometries[i].surfaces[k].normal = -geometries[j].surfaces[l].normal

\* C18: after World._startCalculation every surface of every placed geometry has
\* the material index of its geometry as indexInside, and where two placed
\* geometries share a boundary the indexOutside of each one's boundary surface
\* is the material index of the geometry on the other side.
C18_IndexPairsConsistent ==
    runs > 0 =>
        \A i \in 1 .. Len(geometries) :
            \A k \in 1 .. Len(geometries[i].surfaces) :
                /\ geometries[i].surfaces[k].indexInside = geometries[i].material.index
                /\ \A j \in 1 .. Len(geometries) :
                      \A l \in 1 .. Len(geometries[j].surfaces) :
                          SharedBoundary(i, k, j, l) =>
                              geometries[i].surfaces[k].indexOutside
                                  = geometries[j].material.index

\* C9: every photon a Source yields has weight 1.0 and is alive when it is
\* yielded.
C9_YieldedAtFullWeight ==
    pc = "locate" => heap[cur].weight = WeightOne /\ isAlive(heap[cur])

----------------------------------------------------------------------------
(* Two runs of World.oldCompute on the same random stream *)

\* The World as in Init, with the draws and the trajectories on record: the
\* first call of oldCompute writes the stream of its draws, and the second one
\* reads the same stream.
InitRuns ==
    /\ geometries = <<>>
    /\ sources = <<>>
    /\ heap = <<>>
    /\ photonInit \in {NoneRef, WorldRef}
    /\ notSupposed = 0
    /\ pc = "idle"
    /\ err = "none"
    /\ runs = 0
    /\ srcIdx = 0
    /\ cur = 0
    /\ currentGeometry = NoneRef
    /\ pending = <<>>
    /\ geo = 0
    /\ d = 0
    /\ inter = NoIntersection
    /\ hist = NoHist
    /\ life = NoLife
    /\ loop = NoLoop
    /\ started = NoStart
    /\ scene = NoScene
    /\ rec = [NoRec EXCEPT !.on = TRUE]
    /\ call = NoCall

NextRuns ==
    \/ PlaceGeometry
    \/ PlaceSource
    \/ OldComputeStart
    \/ ForSource
    \/ NextPhoton
    \/ Locate
    \/ WhileAlive
    \/ Propagate
    \/ AfterPropagate
    \/ WorldPropagateEntry
    \/ WorldPropagateLoop

SpecRuns == InitRuns /\ [][NextRuns]_vars

\* C8: given the same sequence of random draws, two successive runs of
\* World.oldCompute on the same World produce identical photon trajectories.
\* (A Source hands out the same Photon objects in both runs, so that the events
\* of the k-th photon carry the same photon id in both.)
C8_RunsIdentical ==
    pc = "idle" /\ runs = 2 /\ rec.on => rec.traj[2] = rec.traj[1]

----------------------------------------------------------------------------
(* A Source and its consumers *)

\* A PencilSource of maxCount photons, nothing generated yet.
InitSource ==
    /\ geometries = <<>>
    /\ \E maxCount \in 0 .. MaxCount : sources = <<NewSource(1, maxCount)>>
    /\ heap = <<>>
    /\ photonInit = NoneRef
    /\ notSupposed = 0
    /\ pc = "idle"
    /\ err = "none"
    /\ runs = 0
    /\ srcIdx = 1
    /\ cur = 0
    /\ currentGeometry = NoneRef
    /\ pending = <<>>
    /\ geo = 0
    /\ d = 0
    /\ inter = NoIntersection
    /\ hist = NoHist
    /\ life = NoLife
    /\ loop = NoLoop
    /\ started = NoStart
    /\ scene = NoScene
    /\ rec = NoRec
    /\ call = NoCall

SourceUnchanged == UNCHANGED <<geometries, photonInit, notSupposed, srcIdx,
                               currentGeometry, pending, geo, d, inter, hist,
                               life, started, rec, scene>>

\* "for photon in source": Source.__iter__.  runs counts the loops started.
SourceFor ==
    /\ pc = "idle"
    /\ runs < MaxRuns
    /\ runs' = runs + 1
    /\ pc' = "for"
    /\ sources' = [sources EXCEPT ![srcIdx] = SourceIter(@)]
    /\ loop' = [NoLoop EXCEPT !.active = TRUE, !.source = srcIdx,
                              !.listed = loop.listed]
    /\ UNCHANGED <<heap, err, cur>>
    /\ UNCHANGED call
    /\ SourceUnchanged

\* The loop asks for its next photon: Source.__next__.
SourceForNext ==
    /\ pc = "for"
    /\ IF NextStops(sources[srcIdx])
       THEN /\ pc' = "idle"
            /\ loop' = [loop EXCEPT !.stopped = TRUE]
            /\ UNCHANGED <<sources, heap, cur>>
       ELSE LET got == SourceNext(sources[srcIdx], heap)
            IN /\ sources' = [sources EXCEPT ![srcIdx] = got.source]
               /\ heap' = got.heap
               /\ cur' = got.photon
               /\ loop' = [loop EXCEPT !.yielded = Append(@, Yielded(got.photon,
                                                                     got.heap))]
               /\ pc' = "for"
    /\ UNCHANGED <<err, runs>>
    /\ UNCHANGED call
    /\ SourceUnchanged

\* The body of the loop leaves it before the source is exhausted.
SourceForBreak ==
    /\ pc = "for"
    /\ pc' = "idle"
    /\ loop' = [loop EXCEPT !.active = FALSE]
    /\ UNCHANGED <<sources, heap, err, runs, cur>>
    /\ UNCHANGED call
    /\ SourceUnchanged

\* The indices source[item] is asked with.
SourceItems == -(MaxCount + 1) .. MaxCount

\* source[item]; call keeps the index asked and the length of the cache before.
SourceIndexAt(item) ==
    /\ IF ItemRaises(sources[srcIdx], item)
       THEN /\ err' = "IndexError"
            /\ UNCHANGED <<sources, heap, cur>>
       ELSE LET got == SourceGetItem(sources[srcIdx], heap, item)
            IN /\ sources' = [sources EXCEPT ![srcIdx] = got.source]
               /\ heap' = got.heap
               /\ cur' = got.photon
               /\ err' = "none"
    /\ call' = [op |-> "getitem", item |-> item,
                cached |-> Len(sources[srcIdx].photons)]
    /\ UNCHANGED <<pc, runs, loop>>
    /\ SourceUnchanged

\* source[item], between two loops or in the body of one.
SourceIndex == \E item \in SourceItems : SourceIndexAt(item)

\* source.getPhotons(), between two loops or in the body of one.
SourceList ==
    /\ LET got == SourceGetPhotons(sources[srcIdx], heap)
       IN /\ sources' = [sources EXCEPT ![srcIdx] = got.source]
          /\ heap' = got.heap
          /\ loop' = [loop EXCEPT !.listed = Len(got.source.photons)]
    /\ UNCHANGED <<pc, err, runs, cur>>
    /\ UNCHANGED call
    /\ SourceUnchanged

\* The consumer propagates the photon it was given until it is dead.
SourceConsume ==
    /\ cur # 0
    /\ isAlive(heap[cur])
    /\ heap' = [heap EXCEPT ![cur] = decreaseWeightBy(@, @.weight)]
    /\ UNCHANGED <<sources, pc, err, runs, cur, loop>>
    /\ UNCHANGED call
    /\ SourceUnchanged

NextSource ==
    \/ SourceFor
    \/ SourceForNext
    \/ SourceForBreak
    \/ SourceIndex
    \/ SourceList
    \/ SourceConsume

SpecSource == InitSource /\ [][NextSource]_vars


\* C10: every for-loop over a Source yields exactly maxCount photons and then
\* stops, and getPhotons returns a list of exactly maxCount photons, whatever
\* index accesses or earlier loops happened before.
C10_ExactlyMaxCount ==
    LET s == sources[1]
    IN /\ loop.active /\ pc = "for" =>
            /\ Len(loop.yielded) <= s.maxCount
            /\ NextStops(s) <=> Len(loop.yielded) = s.maxCount
       /\ loop.stopped => Len(loop.yielded) = s.maxCount
       /\ loop.listed # -1 => loop.listed = s.maxCount
       /\ Len(s.photons) <= s.maxCount

\* A second loop has stopped after maxCount = MaxCount photons, some of which
\* had been killed by the consumer of the first loop, and getPhotons has
\* returned its list.
C10_Witness ==
    /\ runs = 2
    /\ loop.stopped
    /\ Len(loop.yielded) = MaxCount
    /\ sources[1].maxCount = MaxCount
    /\ loop.listed = MaxCount
    /\ \E k \in 1 .. Len(loop.yielded) : loop.yielded[k].weight = 0

----------------------------------------------------------------------------
(* World.oldCompute: one photon after another *)

\* The photons World.oldCompute has taken from its sources in the current call
\* before the one it is processing: those of the sources already iterated and
\* those yielded earlier by the current for-loop.
EarlierPhotons ==
    UNION {{sources[i].photons[k] : k \in 1 .. Len(sources[i].photons)} :
              i \in 1 .. srcIdx - 1}
    \cup {loop.yielded[k].photon : k \in 1 .. Len(loop.yielded) - 1}
    \cup (IF pc = "forPhoton" /\ loop.yielded # <<>>
          THEN {loop.yielded[Len(loop.yielded)].photon} ELSE {})

\* World.oldCompute is inside the loop over the photons of a source.
InPhotonLoop == srcIdx > 0 /\ loop.active /\ pc \notin {"idle", "compute", "forSource"}

\* C11: in World.oldCompute the photons are processed one after another: nothing
\* is done with the next photon before the current one is not alive, and the
\* loop of a photon ends only with the photon not alive.
C11_OneAfterAnother ==
    InPhotonLoop => \A id \in EarlierPhotons : ~isAlive(heap[id])

\* The second photon of a for-loop has been yielded alive, the first one having
\* been processed.
C11_Witness ==
    /\ InPhotonLoop
    /\ pc = "locate"
    /\ Len(loop.yielded) = 2
    /\ loop.yielded[1].weight = WeightOne
    /\ isAlive(heap[cur])
    /\ cur # loop.yielded[1].photon

----------------------------------------------------------------------------
(* World._propagate: a photon that meets no geometry *)

\* The events of a trajectory that are calls of a scorer (Geometry._score*).
ScoreOps == {"start", "crossing", "final"}

----------------------------------------------------------------------------
(* The coordinate frames of a photon *)

\* Geometry.propagate is between its two transforms.
InLocalFrame == pc \in {"loop", "pick", "volume", "interface", "refract", "exiting",
                        "leaving", "roulette", "final"}

\* The photons are in world coordinates outside Geometry.propagate, the photon
\* of a call is in the frame of its geometry inside it, and World._nextObstacle
\* hands the photon back as it got it.
FramesPaired ==
    /\ ~InLocalFrame => \A id \in 1 .. Len(heap) : heap[id].origin = 0
    /\ InLocalFrame =>
        /\ heap[cur].origin = geometries[geo].origin
        /\ \A id \in 1 .. Len(heap) : id # cur => heap[id].origin = 0
    /\ pc = "worldLoop" => nextObstacle(geometries, heap[cur]).photon = heap[cur]

\* A transform leaves the photon where it is in the world.
TransformKeepsPlace ==
    pc \in {"propagate", "final"} /\ cur' = cur =>
        globalPosition(heap'[cur]) = globalPosition(heap[cur])

\* C13: every transformToLocalCoordinates(origin) of a photon is matched by a
\* transformFromLocalCoordinates with the same origin before another transform
\* and before control is back in the World loop: after Geometry.propagate and
\* after World._nextObstacle the photon is in world coordinates, where an
\* untransformed copy would be.
C13_TransformsPaired == []FramesPaired /\ [][TransformKeepsPlace]_vars

\* Geometry.propagate of a geometry placed away from the origin has returned by
\* a transmission, and the photon is in world coordinates.
C13_Witness ==
    /\ pc = "returned"
    /\ geometries[geo].origin # 0
    /\ hist.transmitted
    /\ heap[cur].origin = 0

----------------------------------------------------------------------------
(* nextEntranceInterface and nextExitInterface of a Layer, a Box and a
   SemiInfiniteLayer *)

\* The geometries whose interfaces are called, with the indices of their
\* surfaces assigned, and the arguments of the calls.
ProbeGeometries ==
    {AssignIndices(Layer(t, Material(5, 14), FALSE)) : t \in Thicknesses}
    \cup {AssignIndices(Box(size, Material(5, 14), FALSE)) : size \in BoxSizes}
    \cup {AssignIndices(SemiInfiniteLayer(Material(5, 14), FALSE))}
ProbeDistances == Distances \cup {FarDistance, ValidateMaxDist}
ProbePositions(g, direction, distance) ==
    (-3 .. 4) \cup {g.center, g.center + direction * distance,
                    g.center - direction * distance}

\* A call of op on geometry g: its arguments, whether the position is inside g,
\* the locals of the bisection, and what it returns or raises.
NewCall(op, g, position, direction, distance) ==
    [op |-> op, g |-> g, position |-> position, direction |-> direction,
     distance |-> distance, inside |-> containsAt(g, position, 1),
     finalPosition |-> 0, delta |-> 0, wasInside |-> TRUE, tests |-> 0,
     done |-> FALSE, raised |-> "none", result |-> NoIntersection]

Returned(c, result) == [c EXCEPT !.done = TRUE, !.result = result]

InitInterfaces ==
    /\ \E g \in ProbeGeometries : geometries = <<g>>
    /\ sources = <<>>
    /\ heap = <<>>
    /\ photonInit = NoneRef
    /\ notSupposed = 0
    /\ pc = "idle"
    /\ err = "none"
    /\ runs = 0
    /\ srcIdx = 0
    /\ cur = 0
    /\ currentGeometry = NoneRef
    /\ pending = <<>>
    /\ geo = 1
    /\ d = 0
    /\ inter = NoIntersection
    /\ hist = NoHist
    /\ life = NoLife
    /\ loop = NoLoop
    /\ started = NoStart
    /\ scene = NoScene
    /\ rec = NoRec
    /\ call = NoCall

InterfaceUnchanged ==
    UNCHANGED <<geometries, sources, heap, photonInit, notSupposed, err, runs,
                srcIdx, cur, currentGeometry, pending, geo, d, inter, hist, life,
                loop, started, rec, scene>>

\* geometry.nextEntranceInterface(position, direction, distance)
EntranceCall ==
    /\ pc = "idle"
    /\ \E direction \in ProbeDirections, distance \in ProbeDistances :
        \E position \in ProbePositions(geometries[geo], direction, distance) :
            call' = Returned(NewCall("entrance", geometries[geo], position,
                                     direction, distance),
                             nextEntranceInterface(geometries[geo], GeometryRef(geo),
                                                   position, direction, distance))
    /\ UNCHANGED pc
    /\ InterfaceUnchanged

\* geometry.nextExitInterface(position, direction, distance) of a Layer or a
\* SemiInfiniteLayer.
ExitCall ==
    /\ pc = "idle"
    /\ geometries[geo].kind # "Box"
    /\ \E direction \in ProbeDirections, distance \in ProbeDistances :
        \E position \in ProbePositions(geometries[geo], direction, distance) :
            LET g == geometries[geo]
                c == NewCall("exit", g, position, direction, distance)
            IN call' =
                IF g.kind = "Layer"
                THEN Returned(c, nextExitInterface(g, GeometryRef(geo), position,
                                                   direction, distance))
                ELSE IF semiInfiniteExitRaises(g, position, direction, distance)
                THEN [c EXCEPT !.done = TRUE, !.raised = "AssertionError"]
                ELSE Returned(c, semiInfiniteNextExitInterface(
                                    g, GeometryRef(geo), position, direction, distance))
    /\ UNCHANGED pc
    /\ InterfaceUnchanged

\* Geometry.nextExitInterface, lines 254-262, of a Box, for a ray along z and a
\* distance whose halves the model can hold.
GenericExitCall ==
    /\ pc = "idle"
    /\ geometries[geo].kind = "Box"
    /\ \E direction \in ProbeDirections \ {0},
          distance \in ProbeDistances \ {ValidateMaxDist} :
        \E position \in ProbePositions(geometries[geo], direction, distance) :
            LET g == geometries[geo]
                c == NewCall("exit", g, position, direction, distance)
            IN IF containsAt(g, position + direction * distance, 1)
               THEN call' = Returned(c, NoIntersection) /\ pc' = "idle"
               ELSE /\ call' = [c EXCEPT !.finalPosition = position * LengthUnit,
                                         !.delta = (distance * LengthUnit) \div 2]
                    /\ pc' = "bisect"
    /\ InterfaceUnchanged

\* Lines 264-271: one iteration of the bisection.
Bisect ==
    /\ pc = "bisect"
    /\ BisectionGoesOn(call.delta)
    /\ call.tests < MaxTests
    /\ call' = BisectionStep(call)
    /\ UNCHANGED pc
    /\ InterfaceUnchanged

\* Lines 273-279: the bisection is over.
BisectReturn ==
    /\ pc = "bisect"
    /\ ~BisectionGoesOn(call.delta)
    /\ call' = Returned(call, ExitScan(call, 1))
    /\ pc' = "idle"
    /\ InterfaceUnchanged

NextInterfaces ==
    \/ EntranceCall
    \/ ExitCall
    \/ GenericExitCall
    \/ Bisect
    \/ BisectReturn

SpecInterfaces == InitInterfaces /\ [][NextInterfaces]_vars

----------------------------------------------------------------------------
(* Claims about the interfaces *)

\* A call along a ray of the validation: from the center, or from the far end of
\* the ray with the direction reversed.
ProbeCall ==
    /\ call.op # "none"
    /\ call.done
    /\ call.g.kind \in {"Layer", "Box"}
    /\ call.distance >= FarDistance
FromCenter == call.position = call.g.center
FromFarEnd == call.position = call.g.center - call.direction * call.distance

ProbesConsistent ==
    /\ FromCenter /\ call.op = "entrance" => ~call.result.found
    /\ FromCenter /\ call.op = "exit" => call.result.found
    /\ FromFarEnd /\ call.op = "exit" => ~call.result.found
    /\ FromFarEnd /\ call.op = "entrance" => call.result.found

C15_IntersectionsOwned ==
    call.op # "none" /\ call.done /\ call.result.found =>
        call.result.geometry = GeometryRef(geo)

\* The number of times a first step of size delta is halved down to the
\* tolerance, and twice that number for a distance.
RECURSIVE Halvings(_)
Halvings(delta) == IF delta <= Tolerance THEN 0 ELSE 1 + Halvings(delta \div 2)
TestBound(distance) == 2 * Halvings((distance * LengthUnit) \div 2)

\* The bisection walks away from the Box: the final position is outside, beyond
\* the Box in the direction of the steps, so that every further test finds it
\* outside as the last one did, delta stays as it is and the loop never ends.
WalksAway ==
    /\ pc = "bisect"
    /\ BisectionGoesOn(call.delta)
    /\ ~call.wasInside
    /\ \/ call.delta * call.direction > 0
          /\ 2 * call.finalPosition > call.g.thickness * LengthUnit
       \/ call.delta * call.direction < 0
          /\ 2 * call.finalPosition < -(call.g.thickness * LengthUnit)

\* C16 as stated: the bisection of the generic nextExitInterface terminates on
\* every call, for every start position, direction and distance, after a number
\* of containment tests bounded by a function of distance / tolerance alone.
C16_BisectionTerminates ==
    call.op = "exit" /\ call.g.kind = "Box" => ~WalksAway

\* C16: for every start position inside the geometry the bisection terminates
\* after at most two containment tests for each halving of the step, the number
\* of halvings being a function of distance / tolerance.
C16_BisectionBoundedFromInside ==
    call.op = "exit" /\ call.g.kind = "Box" /\ call.inside =>
        /\ ~WalksAway
        /\ call.tests <= TestBound(call.distance)
        /\ TestBound(call.distance) < MaxTests

\* A bisection from inside has ended after some tests.
C16_Witness ==
    /\ call.op = "exit"
    /\ call.g.kind = "Box"
    /\ call.inside
    /\ call.done
    /\ call.tests >= Halvings((call.distance * LengthUnit) \div 2)
    /\ call.tests > 0

----------------------------------------------------------------------------
(* The lifetime of the photon of one source in a World with one Layer *)

\* The Layer keeps a tenth of the weight at each volume interaction, so that a
\* photon comes below the roulette threshold after five of them.
InitLifetime ==
    /\ \E st \in BOOLEAN : geometries = <<Placed(Layer(2, Material(9, 14), st), 0)>>
    /\ \E position \in SourcePositions :
        sources = <<Placed(NewSource(1, 1), position)>>
    /\ heap = <<>>
    /\ photonInit \in {NoneRef, WorldRef}
    /\ notSupposed = 0
    /\ pc = "idle"
    /\ err = "none"
    /\ runs = 0
    /\ srcIdx = 0
    /\ cur = 0
    /\ currentGeometry = NoneRef
    /\ pending = <<>>
    /\ geo = 0
    /\ d = 0
    /\ inter = NoIntersection
    /\ hist = NoHist
    /\ life = NoLife
    /\ loop = NoLoop
    /\ started = NoStart
    /\ scene = NoScene
    /\ rec = NoRec
    /\ call = NoCall

NextLifetime ==
    \/ OldComputeStart
    \/ ForSource
    \/ NextPhoton
    \/ Locate
    \/ WhileAlive
    \/ Propagate
    \/ AfterPropagate
    \/ WorldPropagateEntry
    \/ WorldPropagateLoop

SpecLifetime == InitLifetime /\ [][NextLifetime]_vars

WeightInRange ==
    \A id \in 1 .. Len(heap) : heap[id].weight >= 0 /\ heap[id].weight <= WeightOne

\* A step that increases the weight of a photon is the roulette of
\* Geometry.propagate on that photon, which was below the threshold and is given
\* 1/0.1 times its weight.
IncreaseIsSurvival ==
    \A id \in 1 .. Len(heap) :
        id <= Len(heap') /\ heap'[id].weight > heap[id].weight =>
            /\ pc = "roulette"
            /\ id = cur
            /\ heap[id].weight < RouletteThreshold
            /\ heap'[id].weight = 10 * heap[id].weight

\* C20: throughout the lifetime of a photon (volume interactions with an albedo
\* in [0, 1], roulette with threshold 1e-4 and weight / 0.1 on survival, kills
\* by the World) its weight stays within [0, 1] and increases only at a roulette
\* survival.
C20_WeightBounded == []WeightInRange /\ [][IncreaseIsSurvival]_vars

\* A photon of the source that five volume interactions brought below the
\* threshold has survived the roulette.
C20_Witness ==
    /\ runs > 0
    /\ pc = "loop"
    /\ hist.rouletteChanged
    /\ hist.interacted
    /\ heap[cur].weight = RouletteThreshold

----------------------------------------------------------------------------
(* Claims about World.place *)

\* A step that makes one of the two lists longer is a call of World.place.
GeometryPlaced == Len(geometries') > Len(geometries)
SourcePlaced == Len(sources') > Len(sources)

\* What a call of World.place does to the two lists.
PlaceIsAdditive ==
    /\ GeometryPlaced =>
          /\ Len(geometries') = Len(geometries) + 1
          /\ SubSeq(geometries', 1, Len(geometries)) = geometries
          /\ \E placement \in WorldPlacements :
                geometries'[Len(geometries')] =
                    [placement[1] EXCEPT !.origin = placement[2]]
          /\ sources' = sources
    /\ SourcePlaced =>
          /\ Len(sources') = Len(sources) + 1
          /\ SubSeq(sources', 1, Len(sources)) = sources
          /\ sources'[Len(sources')].origin \in SourcePositions
          /\ geometries' = geometries
    /\ Len(geometries') >= Len(geometries)
    /\ Len(sources') >= Len(sources)

\* C21: World.place(obj, position) sets obj.origin to position and appends obj
\* to the list of geometries or to the list of sources; it never removes or
\* reorders an entry placed earlier, placing a Source leaves the list of
\* geometries as it is, and placing a Geometry leaves the list of sources as it
\* is.
C21_PlaceIsAdditive == [][PlaceIsAdditive]_vars

\* A Layer placed at z = 2 after a KleinBottle, and a source placed at z = -2.
C21_Witness ==
    /\ Len(geometries) = 2
    /\ geometries[1].kind = "KleinBottle"
    /\ geometries[2].kind = "Layer" /\ geometries[2].origin = 2
    /\ Len(sources) = 1 /\ sources[1].origin = -2
    /\ runs = 0

----------------------------------------------------------------------------
(* Claims about World._contains *)

\* The placed geometries that contain a point of the world, and those whose
\* contains raises.
Containing(worldCoordinates) ==
    {i \in 1 .. Len(geometries) :
        /\ ~ContainsRaises(geometries[i])
        /\ Contains(geometries[i], worldCoordinates - geometries[i].origin)}

Least(S) == CHOOSE i \in S : \A j \in S : i <= j

\* contains raises for a geometry that is asked before any containing one.
RaisesFirst(worldCoordinates) ==
    \E i \in 1 .. Len(geometries) :
        /\ ContainsRaises(geometries[i])
        /\ \A j \in Containing(worldCoordinates) : i < j

\* The two calls of _contains in oldCompute: for the photon a source has
\* yielded, and for the photon Geometry.propagate has returned.
ContainsCalled == pc \in {"locate", "returned"} /\ pc' # pc

ContainsReturnsFirst ==
    ContainsCalled =>
        LET point == globalPosition(heap[cur])
        IN /\ err' = "none" <=> ~RaisesFirst(point)
           /\ err' = "none" =>
                 /\ currentGeometry' = NoneRef <=> Containing(point) = {}
                 /\ Containing(point) # {} =>
                       currentGeometry' = GeometryRef(Least(Containing(point)))

\* C22: World._contains(p) returns the first geometry, in the order of
\* placement, whose contains(p - origin) is true, and None exactly when no
\* placed geometry contains the point; of two overlapping geometries the one
\* placed first wins.  (It returns unless a contains asked on the way raises.)
C22_ContainsReturnsFirst == [][ContainsReturnsFirst]_vars

\* A photon found in the first of two geometries that both contain it.
C22_Witness ==
    /\ pc = "while"
    /\ cur # 0
    /\ Cardinality(Containing(globalPosition(heap[cur]))) = 2
    /\ currentGeometry = GeometryRef(1)
    /\ life = NoLife

----------------------------------------------------------------------------
(* Geometry.propagateMany on a group of one photon, after Geometry.propagate on
   a photon in the same state and on the same stream of draws *)

\* Line 117: transmittedPhotons.moveBy(1e-6), in units of 1e-3.
NudgeMany == 0

ManyUnchanged == UNCHANGED <<geometries, sources, photonInit, notSupposed, err,
                            srcIdx, currentGeometry, pending, geo, d, inter,
                            hist, life, loop, started, scene>>

\* The photon is heap[1] for propagate and its copy heap[2] for propagateMany.
InitMany ==
    /\ \E a \in {5, 10}, st \in BOOLEAN :
        geometries = <<Placed(Layer(2, Material(a, 14), st), 0)>>
    /\ sources = <<>>
    /\ photonInit = NoneRef
    /\ \E z \in -1 .. 2, ez \in ScatterDirections,
          w \in {WeightOne, RouletteThreshold} :
        heap = <<[NewPhoton(z, ez) EXCEPT !.weight = w],
                 [NewPhoton(z, ez) EXCEPT !.weight = w]>>
    /\ notSupposed = 0
    /\ pc = "propagate"
    /\ err = "none"
    /\ runs = 1
    /\ srcIdx = 0
    /\ cur = 1
    /\ currentGeometry = GeometryRef(1)
    /\ pending = <<>>
    /\ geo = 1
    /\ d = 0
    /\ inter = NoIntersection
    /\ hist = NoHist
    /\ life = NoLife
    /\ loop = NoLoop
    /\ started = NoStart
    /\ scene = NoScene
    /\ rec = [on |-> TRUE, tape |-> <<>>, pos |-> 1, traj |-> << <<>> >>]
    /\ call = NoCall

\* Lines 80-83: photonsInside = photons, transformToLocalCoordinates,
\* _scoreManyWhenStarting, photonsExited = Photons().
ManyStart ==
    /\ pc = "returned"
    /\ cur = 1
    /\ cur' = 2
    /\ runs' = 2
    /\ heap' = [heap EXCEPT ![2] =
                    transformToLocalCoordinates(heap[2], geometries[geo].origin)]
    /\ rec' = [rec EXCEPT
                 !.pos = 1,
                 !.traj = Append(@, IF geometries[geo].stats
                                    THEN <<Event("start", 2, heap[2])>> ELSE <<>>)]
    /\ call' = [op |-> "many", inside |-> TRUE, exited |-> FALSE,
                taped |-> Len(rec.tape)]
    /\ pc' = "manyLoop"
    /\ ManyUnchanged

\* Line 125, photonsInside.roulette(): the roulette of the photon of the group;
\* a photon it leaves dead is no longer in the group.
ManyRoulette(p, survives) == roulette(p, survives)

ManyBelow(p) == p.weight < RouletteThreshold /\ p.weight # 0

\* Lines 85-125, the photon being unimpeded: move, decrease the weight, score,
\* scatter, roulette.
ManyVolume ==
    /\ pc = "manyLoop"
    /\ call.inside
    /\ \E nd \in getScatteringDistance(geometries[geo].material),
          newEz \in ScatterDirections, survives \in BOOLEAN :
        LET p == heap[cur]
            interface == nextExitInterface(geometries[geo], GeometryRef(geo),
                                           p.r, p.ez, nd)
            moved == moveBy(p, nd)
            delta == VolumeDelta(moved, geometries[geo])
            scattered == scatterBy(decreaseWeightBy(moved, delta), newEz)
            after == ManyRoulette(scattered, survives)
            draws == <<nd, newEz>> \o (IF ManyBelow(scattered)
                                       THEN <<Bit(survives)>> ELSE <<>>)
        IN /\ ~interface.found
           /\ ManyBelow(scattered) \/ survives
           /\ DrawsAllowed(draws)
           /\ heap' = [heap EXCEPT ![cur] = after]
           /\ rec' = Recorded(draws,
                       <<Event("move", cur, moved), Event("absorb", cur, scattered)>>
                       \o (IF ManyBelow(scattered)
                           THEN <<Event("roulette", cur, after)>> ELSE <<>>))
           /\ call' = [call EXCEPT !.inside = isAlive(after)]
    /\ UNCHANGED <<pc, runs, cur>>
    /\ ManyUnchanged

\* Lines 85-125, the photon being impeded and reflected: move to the interface,
\* reflect, roulette.  No move away from the surface, and no distance is kept.
ManyReflect ==
    /\ pc = "manyLoop"
    /\ call.inside
    /\ \E nd \in getScatteringDistance(geometries[geo].material),
          survives \in BOOLEAN :
        LET p == heap[cur]
            interface == nextExitInterface(geometries[geo], GeometryRef(geo),
                                           p.r, p.ez, nd)
            moved == moveBy(p, interface.distance)
            reflected == reflect(moved)
            after == ManyRoulette(reflected, survives)
            draws == <<nd, Bit(TRUE)>> \o (IF ManyBelow(reflected)
                                           THEN <<Bit(survives)>> ELSE <<>>)
        IN /\ interface.found
           /\ ManyBelow(reflected) \/ survives
           /\ DrawsAllowed(draws)
           /\ heap' = [heap EXCEPT ![cur] = after]
           /\ rec' = Recorded(draws,
                       <<Event("move", cur, moved), Event("reflect", cur, reflected)>>
                       \o (IF ManyBelow(reflected)
                           THEN <<Event("roulette", cur, after)>> ELSE <<>>))
           /\ call' = [call EXCEPT !.inside = isAlive(after)]
    /\ UNCHANGED <<pc, runs, cur>>
    /\ ManyUnchanged

\* Lines 85-126, the photon being impeded and transmitted: move to the
\* interface, refract, move by 1e-6, score the crossing, join photonsExited.
ManyTransmit ==
    /\ pc = "manyLoop"
    /\ call.inside
    /\ \E nd \in getScatteringDistance(geometries[geo].material) :
        LET p == heap[cur]
            interface == nextExitInterface(geometries[geo], GeometryRef(geo),
                                           p.r, p.ez, nd)
            moved == moveBy(p, interface.distance)
            refracted == refract(moved)
            out == moveBy(refracted, NudgeMany)
            draws == <<nd, Bit(FALSE)>>
        IN /\ interface.found
           /\ DrawsAllowed(draws)
           /\ heap' = [heap EXCEPT ![cur] = out]
           /\ rec' = Recorded(draws,
                       <<Event("move", cur, moved), Event("refract", cur, refracted),
                         Event("move", cur, out)>>
                       \o (IF geometries[geo].stats
                           THEN <<Event("crossing", cur, out)>> ELSE <<>>))
           /\ call' = [call EXCEPT !.inside = FALSE, !.exited = TRUE]
    /\ UNCHANGED <<pc, runs, cur>>
    /\ ManyUnchanged

\* Lines 85 and 132: photonsInside is empty;
\* photonsExited.transformFromLocalCoordinates(self.origin).
ManyFinal ==
    /\ pc = "manyLoop"
    /\ ~call.inside
    /\ heap' = IF call.exited
               THEN [heap EXCEPT ![cur] =
                        transformFromLocalCoordinates(heap[cur], geometries[geo].origin)]
               ELSE heap
    /\ pc' = "manyDone"
    /\ UNCHANGED <<rec, call, runs, cur>>
    /\ ManyUnchanged

NextMany ==
    \/ Propagate
    \/ ManyStart
    \/ ManyVolume
    \/ ManyReflect
    \/ ManyTransmit
    \/ ManyFinal

SpecMany == InitMany /\ [][NextMany]_vars

\* The events of a call without the identity of the photon.
Anonymous(events) ==
    [k \in 1 .. Len(events) |->
        [op |-> events[k].op, r |-> events[k].r, ez |-> events[k].ez,
         weight |-> events[k].weight]]

\* propagateMany has returned, having taken the draws propagate had taken, the
\* photon having come in alive and inside the geometry.
SameDraws ==
    /\ pc = "manyDone"
    /\ Len(rec.tape) = call.taped
    /\ rec.pos = call.taped + 1
    /\ hist.inside0
    /\ hist.w0 > 0

----------------------------------------------------------------------------
(* The point the bisection of Geometry.nextExitInterface ends at *)

\* A call on a Box from a position inside it with the end point outside has
\* returned.
BisectionDone ==
    /\ call.op = "exit"
    /\ call.g.kind = "Box"
    /\ call.done
    /\ call.inside
    /\ ~containsAt(call.g, call.position + call.direction * call.distance, 1)

\* Where the ray of the call leaves the Box.
TrueCrossing == call.direction * (call.g.thickness \div 2) * LengthUnit

OnSegment ==
    LET start == call.position * LengthUnit
        end == (call.position + call.direction * call.distance) * LengthUnit
    IN IF start <= end
       THEN start <= call.finalPosition /\ call.finalPosition <= end
       ELSE end <= call.finalPosition /\ call.finalPosition <= start

\* C26: for a start position inside a convex geometry and an end point outside
\* it, the point the bisection of the generic nextExitInterface ends at lies on
\* the segment between the two and within the tolerance 1e-5 of the true
\* crossing of the boundary, so that the distance reported is between 0 and
\* distance and less than 1e-5 from the true exit distance.
C26_BisectionWithinTolerance ==
    BisectionDone =>
        /\ OnSegment
        /\ Abs(call.finalPosition - TrueCrossing) < Tolerance

----------------------------------------------------------------------------
(* Layer.nextExitInterface from a position inside the layer *)

\* Layer.nextExitInterface has returned for a position inside the layer.
LayerExitFromInside ==
    /\ call.op = "exit"
    /\ call.g.kind = "Layer"
    /\ call.done
    /\ call.position >= 0
    /\ call.position <= call.g.thickness

\* The end point of the call: position + distance * direction.
EndPoint == call.position + call.distance * call.direction

\* C27: for a position inside a Layer (0 <= z <= thickness),
\* Layer.nextExitInterface returns None exactly when the end point
\* position + distance * direction is inside the layer; otherwise it returns
\* the Back surface at distance (thickness - z) / dz when dz > 0 and the Front
\* surface at distance -z / dz when dz < 0, and the returned distance is
\* between 0 and distance.
C27_LayerExitFromInside ==
    LayerExitFromInside =>
        /\ ~call.result.found <=> (EndPoint >= 0 /\ EndPoint <= call.g.thickness)
        /\ call.result.found =>
            /\ call.direction # 0
            /\ call.direction > 0 =>
                /\ call.g.surfaces[call.result.surface].name = "Back"
                /\ call.result.distance * call.direction
                       = call.g.thickness - call.position
            /\ call.direction < 0 =>
                /\ call.g.surfaces[call.result.surface].name = "Front"
                /\ call.result.distance * call.direction = -call.position
            /\ call.result.distance >= 0
            /\ call.result.distance <= call.distance

\* The call returned the Back surface for a position strictly inside the layer
\* and an end point beyond the back.
C27_Witness ==
    /\ LayerExitFromInside
    /\ call.position > 0
    /\ call.position < call.g.thickness
    /\ call.result.found
    /\ call.direction > 0
    /\ call.result.distance < call.distance

----------------------------------------------------------------------------
(* World._nextObstacle and Geometry.nextEntranceInterface *)

\* The distance along the ray of photon p to surface k of geometry i, in world
\* coordinates.
HitDistance(gs, i, k, p) ==
    ((gs[i].origin + gs[i].surfaces[k].z) - globalPosition(p)) * p.ez

\* The surfaces of the placed geometries whose normal opposes the direction of
\* photon p and that its ray hits closer than the distance of
\* World._nextObstacle.
Hits(gs, p) ==
    {hit \in {<<i, k>> : i \in 1 .. Len(gs), k \in 1 .. 2} :
        /\ hit[2] <= Len(gs[hit[1]].surfaces)
        /\ p.ez * gs[hit[1]].surfaces[hit[2]].normal < 0
        /\ HitDistance(gs, hit[1], hit[2], p) > 0
        /\ HitDistance(gs, hit[1], hit[2], p) < WorldMaxDist}

\* No hit is closer, and no hit as close is found earlier.
FirstClosest(gs, p, hit) ==
    \A other \in Hits(gs, p) :
        /\ HitDistance(gs, other[1], other[2], p)
              >= HitDistance(gs, hit[1], hit[2], p)
        /\ HitDistance(gs, other[1], other[2], p)
              = HitDistance(gs, hit[1], hit[2], p)
           => \/ other[1] > hit[1]
              \/ other[1] = hit[1] /\ other[2] >= hit[2]

\* World._nextObstacle(p) returns the first closest hit, None without one or
\* for a photon that is not alive.
ObstacleIsFirstClosest(gs, p) ==
    LET intersection == nextObstacle(gs, p).intersection
    IN IF ~isAlive(p) \/ Hits(gs, p) = {}
       THEN ~intersection.found
       ELSE /\ intersection.found
            /\ intersection.geometry.kind = "geometry"
            /\ <<intersection.geometry.idx, intersection.surface>> \in Hits(gs, p)
            /\ intersection.distance
                 = HitDistance(gs, intersection.geometry.idx, intersection.surface, p)
            /\ FirstClosest(gs, p, <<intersection.geometry.idx,
                                     intersection.surface>>)

\* geometry.nextEntranceInterface(p.r, p.ez, distance) of geometry i, with the
\* photon in the frame of the geometry, returns no surface whose normal has a
\* non-negative dot product with the direction.
EntranceOpposesDirection(gs, i, p) ==
    LET local == transformToLocalCoordinates(
                     transformFromLocalCoordinates(p, p.origin), gs[i].origin)
        entrance == nextEntranceInterface(gs[i], GeometryRef(i), local.r, local.ez,
                                          WorldMaxDist)
    IN entrance.found => local.ez * gs[i].surfaces[entrance.surface].normal < 0

\* C28: World._nextObstacle returns, among all surfaces of all placed
\* geometries whose normal opposes the photon's direction and that the ray hits
\* within the 1e7 budget, an intersection of minimum distance, the one found
\* first on a tie, and None when there is no such surface or the photon is not
\* alive; Geometry.nextEntranceInterface never returns a surface whose normal
\* has a non-negative dot product with the direction.
C28_ObstacleIsFirstClosest ==
    \A ref \in DOMAIN heap :
        /\ heap[ref].origin = 0 => ObstacleIsFirstClosest(geometries, heap[ref])
        /\ \A i \in 1 .. Len(geometries) :
              EntranceOpposesDirection(geometries, i, heap[ref])

\* World._propagate is about to call _nextObstacle for a photon whose ray hits
\* the front of two geometries at the same distance, and the call returns the
\* one placed first.
C28_Witness ==
    /\ pc = "worldLoop"
    /\ isAlive(heap[cur])
    /\ heap[cur].currentGeometry = WorldRef
    /\ \E h1, h2 \in Hits(geometries, heap[cur]) :
        /\ h1[1] < h2[1]
        /\ HitDistance(geometries, h1[1], h1[2], heap[cur])
             = HitDistance(geometries, h2[1], h2[2], heap[cur])
        /\ nextObstacle(geometries, heap[cur]).intersection.geometry.idx = h1[1]

----------------------------------------------------------------------------
(* Geometry.propagate on a geometry that has a stats, then on the same geometry
   without one, for a photon in the same state and the same stream of draws *)

InitScorer ==
    /\ \E o \in LayerOrigins, a \in {5, 10} :
        \/ \E t \in Thicknesses :
              geometries = <<Placed(Layer(t, Material(a, 14), TRUE), o)>>
        \/ \E size \in BoxSizes :
              geometries = <<Placed(Box(size, Material(a, 14), TRUE), o)>>
    /\ sources = <<>>
    /\ photonInit = NoneRef
    /\ \E z \in -1 .. 5, ez \in ScatterDirections,
          w \in {WeightOne, RouletteThreshold, 0} :
        heap = <<[NewPhoton(z, ez) EXCEPT !.weight = w]>>
    /\ notSupposed = 0
    /\ pc = "propagate"
    /\ err = "none"
    /\ runs = 1
    /\ srcIdx = 0
    /\ cur = 1
    /\ currentGeometry = GeometryRef(1)
    /\ pending = <<>>
    /\ geo = 1
    /\ d = 0
    /\ inter = NoIntersection
    /\ hist = NoHist
    /\ life = NoLife
    /\ loop = NoLoop
    /\ started = NoStart
    /\ scene = NoScene
    /\ rec = [on |-> TRUE, tape |-> <<>>, pos |-> 1, traj |-> << <<>> >>]
    /\ call = [op |-> "propagate", photon |-> heap[1], returned |-> heap[1],
               taped |-> 0]

\* The call has returned: the stats of the geometry is taken away
\* (geometry.stats = None) and propagate is called again with the photon as it
\* was and the draws of the first call.
WithoutScorer ==
    /\ pc = "returned"
    /\ runs = 1
    /\ runs' = 2
    /\ geometries' = [geometries EXCEPT ![geo].stats = FALSE]
    /\ heap' = [heap EXCEPT ![cur] = call.photon]
    /\ call' = [call EXCEPT !.returned = heap[cur], !.taped = Len(rec.tape)]
    /\ rec' = [rec EXCEPT !.pos = 1, !.traj = Append(@, <<>>)]
    /\ pc' = "propagate"
    /\ UNCHANGED <<sources, photonInit, notSupposed, err, srcIdx, cur,
                   currentGeometry, pending, geo, d, inter, hist, life, loop,
                   started, scene>>

NextScorer == Propagate \/ WithoutScorer

SpecScorer == InitScorer /\ [][NextScorer]_vars

\* The events of a trajectory that are not handed to the stats.
RECURSIVE Unscored(_)
Unscored(events) ==
    IF events = <<>> THEN <<>>
    ELSE IF Head(events).op \in {"start", "crossing", "final"}
    THEN Unscored(Tail(events))
    ELSE <<Head(events)>> \o Unscored(Tail(events))

\* On a geometry that has a stats: the starting event is the first, the final
\* event the last, there is one of each once the call has returned and at most
\* one crossing, and the photon was in the frame of the geometry at each event.
ScoreEventsInOrder ==
    pc \in InCallSteps /\ geometries[geo].stats =>
        /\ hist.score.starts = 1
        /\ hist.score.first = "start"
        /\ hist.score.crossings <= 1
        /\ hist.score.finals = IF pc = "returned" THEN 1 ELSE 0
        /\ pc = "returned" => hist.score.last = "final"
        /\ hist.score.local

\* On a geometry without a stats no event is emitted, and the photon goes
\* through the states it went through with the stats.
SameWithoutScorer ==
    pc \in InCallSteps /\ ~geometries[geo].stats =>
        /\ hist.score = NoScore
        /\ runs = 2 =>
              /\ Len(rec.tape) = call.taped
              /\ IsPrefix(rec.traj[2], Unscored(rec.traj[1]))
              /\ pc = "returned" =>
                    /\ rec.traj[2] = Unscored(rec.traj[1])
                    /\ rec.pos = call.taped + 1
                    /\ heap[cur] = call.returned

\* C29: every call of Geometry.propagate on a geometry that has a scorer emits
\* exactly one starting event before any other event and exactly one final
\* event after all others, with any number of in-volume events and at most one
\* crossing event in between, all of them while the photon is in the
\* geometry's local frame; on a geometry without a scorer no event is emitted
\* and the photon's evolution is the same.
C29_ScoreEvents == ScoreEventsInOrder /\ SameWithoutScorer

\* The second call has returned, after a first call on a geometry placed away
\* from the origin that scored a volume interaction and a crossing.
C29_Witness ==
    /\ pc = "returned"
    /\ runs = 2
    /\ geometries[geo].origin # 0
    /\ ~geometries[geo].stats
    /\ \E k \in 1 .. Len(rec.traj[1]) : rec.traj[1][k].op = "crossing"
    /\ \E k \in 1 .. Len(rec.traj[1]) : rec.traj[1][k].op = "absorb"
    /\ rec.traj[2] # <<>>

----------------------------------------------------------------------------
(* Geometry.propagate returns *)

\* One call of Geometry.propagate on a Layer or a Box whose material removes a
\* positive fraction of the weight at a volume interaction and has finite
\* free-flight distances.
InitReturns ==
    /\ \E a \in {5, 10} :
        \/ \E t \in Thicknesses :
              geometries = <<Placed(Layer(t, Material(a, 14), TRUE), 2)>>
        \/ geometries = <<Placed(Box(2, Material(a, 14), TRUE), 2)>>
    /\ sources = <<>>
    /\ photonInit = NoneRef
    /\ \E z \in 1 .. 4, ez \in ScatterDirections, w \in {2 * RouletteThreshold, 0} :
        heap = <<[NewPhoton(z, ez) EXCEPT !.weight = w]>>
    /\ notSupposed = 0
    /\ pc = "propagate"
    /\ err = "none"
    /\ runs = 0
    /\ srcIdx = 0
    /\ cur = 1
    /\ currentGeometry = GeometryRef(1)
    /\ pending = <<>>
    /\ geo = 1
    /\ d = 0
    /\ inter = NoIntersection
    /\ hist = NoHist
    /\ life = NoLife
    /\ loop = NoLoop
    /\ started = NoStart
    /\ scene = NoScene
    /\ rec = NoRec
    /\ call = NoCall

\* photon.roulette() of a photon under the threshold draws its death.
RouletteKills == Roulette /\ isAlive(heap[cur]) /\ ~isAlive(heap'[cur])

\* intersection.isReflected() draws a transmission.
Transmits == AtInterface /\ pc' = "refract"

\* The statements of propagate follow one another, and of the random draws that
\* come back again and again each outcome comes at last: a roulette that kills,
\* an interface that transmits.
FairDraws ==
    /\ WF_vars(NextPropagate)
    /\ SF_vars(RouletteKills)
    /\ SF_vars(Transmits)

SpecReturns == InitReturns /\ [][NextPropagate]_vars /\ FairDraws

\* The call has returned with the photon dead or transmitted out, or for a
\* photon that came in dead or outside the geometry.
DeadOrOut ==
    /\ pc = "returned"
    /\ \/ ~isAlive(heap[cur])
       \/ hist.transmitted
       \/ ~hist.inside0

----------------------------------------------------------------------------
(* The photon cache of a Source *)

\* The cache holds maxCount photons at most.
CacheBounded == Len(sources[1].photons) <= sources[1].maxCount

\* The cache never shrinks: its photons stay where they are.
CacheGrows == IsPrefix(sources[1].photons, sources'[1].photons)

\* source[item] for an index within -maxCount .. maxCount - 1 returns the photon
\* of the cache at item mod maxCount, the one that was there if there was one,
\* without an error.
ItemWithinBounds(item) ==
    LET s == sources[1]
        k == (item + s.maxCount) % s.maxCount
    IN /\ err' = "none"
       /\ Len(sources'[1].photons) > k
       /\ cur' = sources'[1].photons[k + 1]
       /\ Len(s.photons) > k => cur' = s.photons[k + 1] /\ heap' = heap

\* source[item] for any other index raises IndexError and generates no photon.
ItemOutOfBounds ==
    /\ err' = "IndexError"
    /\ heap' = heap
    /\ sources' = sources

ItemAccess ==
    \A item \in SourceItems :
        SourceIndexAt(item) =>
            IF -sources[1].maxCount <= item /\ item < sources[1].maxCount
            THEN ItemWithinBounds(item)
            ELSE ItemOutOfBounds

\* C31: for any sequence of index accesses, iterations and getPhotons calls on
\* a Source, the photon cache never holds more than maxCount photons and never
\* shrinks; an index i with -maxCount <= i < maxCount always returns the same
\* photon object as index i mod maxCount did before; any other index raises
\* IndexError without generating a photon.
C31_PhotonCache == []CacheBounded /\ [][CacheGrows /\ ItemAccess]_vars

\* source[-1] has just returned the photon a loop had generated and its
\* consumer had killed.
C31_Witness ==
    /\ call.op = "getitem"
    /\ call.item = -1
    /\ call.cached = sources[1].maxCount
    /\ err = "none"
    /\ cur = sources[1].photons[sources[1].maxCount]
    /\ heap[cur].weight = 0
    /\ runs >= 1

----------------------------------------------------------------------------
(* SurfaceCollection *)

\* The names of the surfaces and the lists of polygons they are given.
SurfaceNames == {"top", "bottom"}
PolygonLists == {<<>>, <<1>>, <<2, 3>>}

\* self._surfaces, a dict: its items in the order of insertion.
\* SurfaceCollection.surfaceNames: list(self._surfaces.keys()).
surfaceNames(c) == [k \in 1 .. Len(c) |-> c[k].name]

collectionContainsNone(c, surfaceName) == FALSE

\* SurfaceCollection._contains: surfaceName in self.surfaceNames.
collectionContains(c, surfaceName) ==
    \E k \in 1 .. Len(c) : surfaceNames(c)[k] = surfaceName

\* self._surfaces[surfaceName] = polygons: the value of a key of the dict is
\* replaced, a new key comes last.
DictSet(c, surfaceName, polygons) ==
    IF \E k \in 1 .. Len(c) : c[k].name = surfaceName
    THEN [k \in 1 .. Len(c) |->
            IF c[k].name = surfaceName THEN [c[k] EXCEPT !.polygons = polygons]
            ELSE c[k]]
    ELSE Append(c, [name |-> surfaceName, polygons |-> polygons])

\* self._surfaces.update(other._surfaces), from item k of other on.
RECURSIVE DictUpdate(_, _, _)
DictUpdate(c, other, k) ==
    IF k > Len(other) THEN c
    ELSE DictUpdate(DictSet(c, other[k].name, other[k].polygons), other, k + 1)

\* SurfaceCollection.add: the exception it raises and the collection after it.
add(c, surfaceName, polygons) ==
    IF collectionContains(c, surfaceName)
    THEN [raised |-> "AssertionError", surfaces |-> c]
    ELSE [raised |-> "none", surfaces |-> DictSet(c, surfaceName, polygons)]

\* SurfaceCollection.setPolygons
setPolygons(c, surfaceName, polygons) ==
    IF ~collectionContains(c, surfaceName)
    THEN [raised |-> "AssertionError", surfaces |-> c]
    ELSE [raised |-> "none", surfaces |-> DictSet(c, surfaceName, polygons)]

\* SurfaceCollection.extend
extend(c, other) ==
    IF \E k \in 1 .. Len(other) : collectionContains(c, surfaceNames(other)[k])
    THEN [raised |-> "AssertionError", surfaces |-> c]
    ELSE [raised |-> "none", surfaces |-> DictUpdate(c, other, 1)]

SceneUnchanged ==
    UNCHANGED <<geometries, sources, heap, photonInit, notSupposed, pc, err, runs,
                srcIdx, cur, currentGeometry, pending, geo, d, inter, hist, life,
                loop, started, rec, call>>

\* Two collections, SurfaceCollection(), with no surface yet.
InitSurfaces ==
    /\ geometries = <<>>
    /\ sources = <<>>
    /\ heap = <<>>
    /\ photonInit = NoneRef
    /\ notSupposed = 0
    /\ pc = "idle"
    /\ err = "none"
    /\ runs = 0
    /\ srcIdx = 0
    /\ cur = 0
    /\ currentGeometry = NoneRef
    /\ pending = <<>>
    /\ geo = 0
    /\ d = 0
    /\ inter = NoIntersection
    /\ hist = NoHist
    /\ life = NoLife
    /\ loop = NoLoop
    /\ started = NoStart
    /\ rec = NoRec
    /\ call = NoCall
    /\ scene = [kind |-> "collections", collections |-> << <<>>, <<>> >>,
                op |-> "none", self |-> 0, surfaceName |-> "", other |-> 0,
                raised |-> "none"]

\* The scene after a method of collection self has returned or raised.
AfterMethod(op, self, surfaceName, other, result) ==
    [scene EXCEPT !.collections[self] = result.surfaces, !.op = op,
                  !.self = self, !.surfaceName = surfaceName, !.other = other,
                  !.raised = result.raised]

\* collection.add(surfaceName, polygons)
CollectionAdd ==
    /\ \E self \in 1 .. 2, surfaceName \in SurfaceNames, polygons \in PolygonLists :
        scene' = AfterMethod("add", self, surfaceName, 0,
                             add(scene.collections[self], surfaceName, polygons))
    /\ SceneUnchanged

\* collection.setPolygons(surfaceName, polygons)
CollectionSetPolygons ==
    /\ \E self \in 1 .. 2, surfaceName \in SurfaceNames, polygons \in PolygonLists :
        scene' = AfterMethod("setPolygons", self, surfaceName, 0,
                             setPolygons(scene.collections[self], surfaceName,
                                         polygons))
    /\ SceneUnchanged

\* collection.extend(other), other being any of the collections, itself too.
CollectionExtend ==
    /\ \E self \in 1 .. 2, other \in 1 .. 2 :
        scene' = AfterMethod("extend", self, "", other,
                             extend(scene.collections[self],
                                    scene.collections[other]))
    /\ SceneUnchanged

NextSurfaces ==
    \/ CollectionAdd
    \/ CollectionSetPolygons
    \/ CollectionExtend

SpecSurfaces == InitSurfaces /\ [][NextSurfaces]_vars

\* The polygons of a surface of a collection; Absent when there is no such
\* surface.
Absent == <<-1>>
PolygonsOf(c, surfaceName) ==
    IF \E k \in 1 .. Len(c) : c[k].name = surfaceName
    THEN c[CHOOSE k \in 1 .. Len(c) : c[k].name = surfaceName].polygons
    ELSE Absent

\* The names of the surfaces of a collection.
Present(c) == {c[k].name : k \in 1 .. Len(c)}

\* No surface of any collection has got other polygons, come or gone.
AllSurfacesUnchanged ==
    \A i \in 1 .. 2, n \in SurfaceNames :
        PolygonsOf(scene'.collections[i], n) = PolygonsOf(scene.collections[i], n)

\* The surfaces the collections had have the polygons they had.
FormerSurfacesUnchanged ==
    \A i \in 1 .. 2 : \A n \in Present(scene.collections[i]) :
        PolygonsOf(scene'.collections[i], n) = PolygonsOf(scene.collections[i], n)

\* What a call of add, setPolygons or extend does to the collections.
CollectionCall ==
    LET self == scene.collections[scene'.self]
        failed == scene'.raised = "AssertionError"
    IN /\ scene'.op = "add" /\ scene'.surfaceName \in Present(self) =>
            failed /\ AllSurfacesUnchanged
       /\ scene'.op = "extend"
            /\ Present(scene.collections[scene'.other]) \cap Present(self) # {} =>
            failed /\ AllSurfacesUnchanged
       /\ scene'.op = "setPolygons" /\ scene'.surfaceName \notin Present(self) =>
            /\ failed
            /\ scene'.surfaceName \notin Present(scene'.collections[scene'.self])
       /\ scene'.op \in {"add", "extend"} /\ ~failed => FormerSurfacesUnchanged

\* C32: for any sequence of add, setPolygons and extend calls on a
\* SurfaceCollection, add or extend with a surface name that is already present
\* fails and leaves every surface's polygons unchanged; setPolygons on an absent
\* name fails without creating it; a successful add or extend leaves the
\* polygons of every previously present surface unchanged.
C32_CollectionCalls == [][CollectionCall]_vars

\* An extend has just failed on a collection that has a surface of the other
\* one under other polygons, after a successful extend of the other one.
C32_Witness ==
    /\ scene.kind = "collections"
    /\ scene.op = "extend"
    /\ scene.raised = "AssertionError"
    /\ scene.other # scene.self
    /\ Len(scene.collections[scene.self]) >= 2
    /\ \E n \in Present(scene.collections[1]) \cap Present(scene.collections[2]) :
        PolygonsOf(scene.collections[1], n) # PolygonsOf(scene.collections[2], n)

----------------------------------------------------------------------------
(* Loader._convert *)

\* The longest polygon of the parsed file.
MaxPolygon == 6

\* parser.vertices: the coordinates of vertex number index (from 0).
ParserVertices == [k \in 1 .. MaxPolygon + 3 |-> <<k - 1, 2 * (k - 1), 0>>]

\* Vector(*vertex)
Vector(vertex) == [x |-> vertex[1], y |-> vertex[2], z |-> vertex[3]]

\* Lines 37-39: the list of the Vectors of the parser's vertices.
ConvertedVertices(parserVertices) ==
    [k \in 1 .. Len(parserVertices) |-> Vector(parserVertices[k])]

\* vertices[index], the indices of Python starting at 0.
VertexAt(vertices, index) == vertices[index + 1]

\* Triangle(v1, v2, v3)
Triangle(v1, v2, v3) == <<v1, v2, v3>>

splitPolygonIndicesInStrips(polygonIndices) ==
    [i \in 1 .. Len(polygonIndices) - 2 |->
        <<polygonIndices[i], polygonIndices[i + 1], polygonIndices[i + 2]>>]

\* Loader._splitPolygonIndices
splitPolygonIndices(polygonIndices) ==
    [i \in 1 .. Len(polygonIndices) - 2 |->
        <<polygonIndices[1], polygonIndices[i + 1], polygonIndices[i + 2]>>]

\* Lines 49-63: the triangles appended to surfacesGroups[group] for one polygon.
PolygonTriangles(vertices, polygonIndices) ==
    IF Len(polygonIndices) = 3
    THEN <<Triangle(VertexAt(vertices, polygonIndices[1]),
                    VertexAt(vertices, polygonIndices[2]),
                    VertexAt(vertices, polygonIndices[3]))>>
    ELSE IF Len(polygonIndices) = 4
    THEN <<Triangle(VertexAt(vertices, polygonIndices[1]),
                    VertexAt(vertices, polygonIndices[2]),
                    VertexAt(vertices, polygonIndices[3])),
           Triangle(VertexAt(vertices, polygonIndices[1]),
                    VertexAt(vertices, polygonIndices[3]),
                    VertexAt(vertices, polygonIndices[4]))>>
    ELSE IF Len(polygonIndices) > 4
    THEN LET trianglesIndices == splitPolygonIndices(polygonIndices)
         IN [t \in 1 .. Len(trianglesIndices) |->
                Triangle(VertexAt(vertices, trianglesIndices[t][1]),
                         VertexAt(vertices, trianglesIndices[t][2]),
                         VertexAt(vertices, trianglesIndices[t][3]))]
    ELSE <<>>

\* Lines 47-63: surfacesGroups[group] after the polygons from polygon k on.
RECURSIVE GroupTriangles(_, _, _, _)
GroupTriangles(vertices, polygons, k, triangles) ==
    IF k > Len(polygons) THEN triangles
    ELSE GroupTriangles(vertices, polygons, k + 1,
                        triangles \o PolygonTriangles(vertices, polygons[k]))

\* Lines 44-63: surfacesGroups after the groups of an object from group k on.
RECURSIVE SurfacesGroups(_, _, _, _)
SurfacesGroups(vertices, groups, k, surfacesGroups) ==
    IF k > Len(groups) THEN surfacesGroups
    ELSE SurfacesGroups(vertices, groups, k + 1,
                        DictSet(surfacesGroups, groups[k].name,
                                GroupTriangles(vertices, groups[k].polygons, 1, <<>>)))

\* Solid(position, vertices, surfaceDict): the solid keeps what it is given.
Solid(position, vertices, surfaceDict) ==
    [position |-> position, vertices |-> vertices, surfaceDict |-> surfaceDict]

\* Loader._convert: the solids, one for each object of the parser.
convert(parser) ==
    LET vertices == ConvertedVertices(parser.vertices)
    IN [o \in 1 .. Len(parser.objects) |->
            Solid(0, vertices,
                  SurfacesGroups(vertices, parser.objects[o].groups, 1, <<>>))]

\* The polygons a parsed file can hold: indices going up from 0 or from 3, or
\* down to 0, and one that names a vertex twice.
Rising(start, n) == [k \in 1 .. n |-> start + k - 1]
Falling(n) == [k \in 1 .. n |-> n - k]
ParsedPolygons ==
    {Rising(0, n) : n \in 0 .. MaxPolygon}
    \cup {Rising(3, n) : n \in 1 .. MaxPolygon}
    \cup {Falling(n) : n \in 2 .. MaxPolygon}
    \cup {<<2, 0, 2, 1, 0>>}

\* A group of a parsed object.
ParsedGroup(name, polygons) == [name |-> name, polygons |-> polygons]

\* The objects a parsed file can hold: none, an object without a group, an
\* object with a group of up to two polygons, one with two groups, and two
\* objects with a group of the same name.
ParsedObjects ==
    {<<>>, <<[name |-> "cube", groups |-> <<>>]>>}
    \cup {<<[name |-> "cube", groups |-> <<ParsedGroup("top", <<>>)>>]>>}
    \cup {<<[name |-> "cube", groups |-> <<ParsedGroup("top", <<p>>)>>]>> :
              p \in ParsedPolygons}
    \cup {<<[name |-> "cube", groups |-> <<ParsedGroup("top", <<p, q>>)>>]>> :
              p \in ParsedPolygons, q \in ParsedPolygons}
    \cup {<<[name |-> "cube", groups |-> <<ParsedGroup("top", <<p>>),
                                           ParsedGroup("bottom", <<q>>)>>]>> :
              p \in ParsedPolygons, q \in ParsedPolygons}
    \cup {<<[name |-> "cube", groups |-> <<ParsedGroup("top", <<p>>)>>],
            [name |-> "lens", groups |-> <<ParsedGroup("top", <<q>>)>>]>> :
              p \in ParsedPolygons, q \in ParsedPolygons}

\* A Loader whose parser has read a file.
InitLoader ==
    /\ geometries = <<>>
    /\ sources = <<>>
    /\ heap = <<>>
    /\ photonInit = NoneRef
    /\ notSupposed = 0
    /\ pc = "idle"
    /\ err = "none"
    /\ runs = 0
    /\ srcIdx = 0
    /\ cur = 0
    /\ currentGeometry = NoneRef
    /\ pending = <<>>
    /\ geo = 0
    /\ d = 0
    /\ inter = NoIntersection
    /\ hist = NoHist
    /\ life = NoLife
    /\ loop = NoLoop
    /\ started = NoStart
    /\ rec = NoRec
    /\ call = NoCall
    /\ \E objects \in ParsedObjects :
        scene = [kind |-> "loader",
                 parser |-> [vertices |-> ParserVertices, objects |-> objects],
                 converted |-> FALSE, solids |-> <<>>]

\* loader._convert()
Convert ==
    /\ scene.kind = "loader"
    /\ ~scene.converted
    /\ scene' = [scene EXCEPT !.converted = TRUE, !.solids = convert(scene.parser)]
    /\ SceneUnchanged

NextLoader == Convert

SpecLoader == InitLoader /\ [][NextLoader]_vars

\* The vertex a parsed index names.
Named(index) == Vector(scene.parser.vertices[index + 1])

\* The fan of a polygon: its first index with each two consecutive later ones,
\* in the polygon's order.
Fan(polygon) ==
    [i \in 1 .. Len(polygon) - 2 |->
        <<Named(polygon[1]), Named(polygon[i + 1]), Named(polygon[i + 2])>>]

\* The triangles of the earlier polygons of a group, the shorter ones adding
\* nothing.
RECURSIVE FansBefore(_, _)
FansBefore(polygons, k) ==
    IF k <= 1 THEN <<>>
    ELSE FansBefore(polygons, k - 1)
         \o (IF Len(polygons[k - 1]) >= 3 THEN Fan(polygons[k - 1]) ELSE <<>>)

\* The triangles of a group of a solid.
TrianglesOfGroup(solid, name) == PolygonsOf(solid.surfaceDict, name)

\* Polygon k of a group has added its fan, after those of the polygons before
\* it, and each corner of its triangles is a vertex the polygon names.
FanAdded(solid, group, k) ==
    LET polygon == group.polygons[k]
        triangles == TrianglesOfGroup(solid, group.name)
        before == Len(FansBefore(group.polygons, k))
    IN Len(polygon) >= 3 =>
        /\ Len(triangles) >= before + Len(polygon) - 2
        /\ SubSeq(triangles, before + 1, before + Len(polygon) - 2) = Fan(polygon)
        /\ \A t \in before + 1 .. before + Len(polygon) - 2 : \A corner \in 1 .. 3 :
              \E i \in 1 .. Len(polygon) : triangles[t][corner] = Named(polygon[i])

\* C33: for every parsed polygon with n >= 3 vertex indices Loader._convert
\* adds exactly n - 2 triangles to the polygon's group, each made of the
\* polygon's first index and two consecutive later indices, in the polygon's
\* order; no triangle uses an index that is not in the polygon, and every group
\* of every object appears in the resulting solid's surface dictionary.
C33_FanTriangulation ==
    scene.kind = "loader" /\ scene.converted =>
        /\ Len(scene.solids) = Len(scene.parser.objects)
        /\ \A o \in 1 .. Len(scene.parser.objects) :
            \A g \in 1 .. Len(scene.parser.objects[o].groups) :
                LET group == scene.parser.objects[o].groups[g]
                IN /\ group.name \in Present(scene.solids[o].surfaceDict)
                   /\ Len(TrianglesOfGroup(scene.solids[o], group.name))
                        = Len(FansBefore(group.polygons, Len(group.polygons) + 1))
                   /\ \A k \in 1 .. Len(group.polygons) :
                        FanAdded(scene.solids[o], group, k)

\* A file with a polygon of two indices and one of more than four in the same
\* group has been converted.
C33_Witness ==
    /\ scene.kind = "loader"
    /\ scene.converted
    /\ \E o \in 1 .. Len(scene.parser.objects) :
        \E g \in 1 .. Len(scene.parser.objects[o].groups) :
            LET polygons == scene.parser.objects[o].groups[g].polygons
            IN /\ Len(polygons) = 2
               /\ Len(polygons[1]) = 2
               /\ Len(polygons[2]) > 4
               /\ Len(TrianglesOfGroup(scene.solids[o],
                                       scene.parser.objects[o].groups[g].name))
                    = Len(polygons[2]) - 2

====
